---- MODULE Spec2Model ----
(***************************************************************************)
(* Model of gitoteko (git_workspace_tool): the workspace scanner use case, *)
(* the action pipeline and the Sonar scan action.                          *)
(*                                                                         *)
(* Specifications:                                                         *)
(*   Spec          GitWorkspaceScanner.execute, one run, step by step      *)
(*   SpecPipeline  ActionPipeline.run called directly (fail_fast free)     *)
(*   SpecSonar     RunSonarScannerAction.execute called repeatedly on one  *)
(*                 working copy                                            *)
(*   SpecDispatch  the same call, with every answer of the mode dispatch   *)
(*   SpecRerun     the same call made twice, both outcomes remembered      *)
(*   SpecWait      _wait_for_ce_task against a clock                       *)
(*   SpecThrottle  the submissions of one instance against a clock         *)
(*   SpecCsv       WriteLanguageReportCsvAction.execute on one report      *)
(*   SpecSelect    the filtering and limiting of the provider's listing    *)
(*   SpecKeys      the Sonar project key of one repository                 *)
(*   SpecCli       cli.main from the arguments to the exit status          *)
(*   SpecGit       ShellGitClientAdapter.clone and pull on one path        *)
(*   SpecPages     BitbucketCloudGitProviderAdapter.list_repositories      *)
(*   SpecProperties GenerateSonarPropertiesAction.execute on one file      *)
(***************************************************************************)
EXTENDS Integers, Sequences, FiniteSets, TLC

(* ------------------------------ bounds --------------------------------- *)
MaxRepos == 2
MaxActions == 2
MaxPolls == 2
MaxWait == 3
MaxInterval == 2
MaxSubmissions == 3
MaxRun == 2
MaxCsvCalls == 3
MaxListed == 3
MaxSelectRuns == 2
MaxKeyChars == 2
MaxPages == 2
MaxItems == 2

(* ---------------------------- value encodings -------------------------- *)
\* Python None for an optional slug / an optional integer / an optional string
NoSlug == 0
NoLimit == -1
None == "None"

Slugs == 1..MaxRepos

\* The provider returns distinct slugs; by symmetry the list is <<1, .., n>>.
ProviderLists == {[k \in 1..n |-> k] : n \in 0..MaxRepos}

GenericName == "GenericAction"
SonarName == "RunSonarScannerAction"
ActionNames == {GenericName, SonarName}

\* pipelines of at most MaxActions actions, at most one of them the Sonar scan
Pipelines ==
    {p \in UNION {[1..n -> ActionNames] : n \in 0..MaxActions} :
        \A a, b \in DOMAIN p : p[a] = SonarName /\ p[b] = SonarName => a = b}

NoError == [kind |-> "none", failed |-> <<>>]

(* ------------------------------ variables ------------------------------ *)
VARIABLES
    pc,             \* position of the running call
    args,           \* arguments dry_run and stop_on_error of execute
    pipeline,       \* ActionPipeline._actions (action names, in order)
    repositories,   \* the local `repositories`: the provider's list, then
                    \* (after List) the selected list
    i,              \* index of the current repository in the loop
    exists,         \* slugs whose local path exists on disk
    already_exists, \* result of path_exists for the current repository
    summaries,      \* list of RepositoryExecutionSummary built so far
    summary,        \* the returned ScanExecutionSummary (once returned)
    fail_fast,      \* argument of the running ActionPipeline.run
    aidx,           \* index of the next action inside ActionPipeline.run
    results,        \* results list inside ActionPipeline.run
    sonar,          \* configuration of the RunSonarScannerAction instances
    stateFile,      \* per working copy: content of the Sonar state file
    last_submission,\* per instance: _last_submission_monotonic is not None
    call,           \* locals of the running RunSonarScannerAction.execute
    caller,         \* who calls the actions: "pipeline", "direct", ...
    history,        \* outcome of the latest direct call of execute
    trace,          \* observable collaborator calls, in order
    now,            \* time.monotonic(), in seconds
    wait,           \* locals of the running _wait_for_ce_task
    throttle,       \* one instance seen in time: its
                    \* _last_submission_monotonic and its dispatch times
    report_csv,     \* the file at WriteLanguageReportCsvAction._report_csv_path
    csvAction,      \* _regenerate and _extensions_delimiter of the instance
    csvCalls,       \* the calls of WriteLanguageReportCsvAction.execute made
    listing,        \* a provider's list and the selection arguments of execute
    rng,            \* what random.Random(seed) yields for the seed of listing
    selectRuns,     \* the lists selected by the runs made over listing
    keys,           \* a workspace id and a slug, and the project keys made of them
    cli,            \* one call of the command line's main
    git,            \* a working copy and the git commands run on it
    pages,          \* the provider's pages and one call of list_repositories
    properties      \* a repository's sonar-project.properties and one call of the action writing it

scanVars == <<args, repositories, i, exists, already_exists,
              summaries, summary>>
runVars == <<pipeline, fail_fast, aidx, results>>
sonarVars == <<sonar, stateFile, last_submission>>
timeVars == <<now, wait, throttle>>
csvVars == <<report_csv, csvAction, csvCalls>>
selectVars == <<listing, rng, selectRuns>>
sideVars == <<csvVars, selectVars, keys, cli, git, pages, properties>>
coreVars == <<pc, scanVars, runVars, sonarVars, call, caller, history, trace>>
vars == <<coreVars, timeVars, sideVars>>
others == <<call, caller, history>>

(* ---------------------------- time at rest ----------------------------- *)
NoWait ==
    [pc |-> "idle", wait_timeout_seconds |-> 0, poll_interval_seconds |-> 0,
     started |-> 0, deadline |-> 0, last_error |-> None, status |-> None,
     responses |-> <<>>]

\* Python None for the optional time of line 82
NoTime == -1

NoThrottle ==
    [pc |-> "idle", last_submission_monotonic |-> NoTime, starts |-> <<>>]

\* no clock runs while the untimed specifications are explored
TimeIdle == now = 0 /\ wait = NoWait /\ throttle = NoThrottle

(* ------------------------- the CSV report at rest ---------------------- *)
NoReport == [exists |-> FALSE, bytes |-> <<>>]

NoCsvAction == [regenerate |-> FALSE, extensions_delimiter |-> ";"]

\* no report is written while the other specifications are explored
CsvIdle == report_csv = NoReport /\ csvAction = NoCsvAction /\ csvCalls = <<>>

(* --------------------- the selection seen alone, at rest --------------- *)
\* Python None for the optional random_seed
NoSeed == -1

NoListing ==
    [provider |-> <<>>, only_repo_slug |-> NoSlug, max_repos |-> NoLimit,
     repo_selection |-> "first", random_seed |-> NoSeed]

SelectIdle == listing = NoListing /\ rng = 0 /\ selectRuns = <<>>

(* --------------------------- other areas at rest ----------------------- *)
NoKeys ==
    [workspace_id |-> <<>>, slug |-> <<>>, project_key |-> <<>>, sanitized |-> <<>>,
     done |-> {}]
NoExit == -1

NoCli ==
    [pc |-> "idle", argv_accepted |-> TRUE, provider |-> None, workspace |-> None,
     base_dir |-> None, max_repos |-> None, env_GIT_STOP_ON_ERROR |-> "false",
     env_GIT_ACTIONS |-> "", exit_code |-> NoExit, raised |-> None,
     scanner_built |-> FALSE, summary_returned |-> FALSE, failed_repositories |-> 0]
NoGit ==
    [pc |-> "idle", op |-> None, path |-> "absent", parent |-> FALSE,
     head |-> None, local |-> {}, remote |-> {}, origin_head |-> None,
     upstream |-> {}, current_branch |-> None, primary_branch |-> None,
     refreshed |-> None, commands |-> <<>>, error |-> FALSE]
NoPages ==
    [pc |-> "idle", next_url |-> 0, repositories |-> <<>>, requested |-> <<>>,
     payloads |-> <<>>, raised |-> FALSE, returned |-> FALSE, result |-> <<>>]
NoProperties ==
    [pc |-> "idle", exists |-> FALSE, content |-> <<>>, overwrite |-> FALSE,
     detected_extensions |-> {}, before |-> <<>>, raised |-> FALSE,
     success |-> FALSE, written |-> FALSE, reason |-> None,
     language_template |-> None]

\* the specifications of one area leave the other areas at rest
SideIdle ==
    /\ CsvIdle
    /\ SelectIdle
    /\ keys = NoKeys
    /\ cli = NoCli
    /\ git = NoGit
    /\ pages = NoPages /\ properties = NoProperties

(* ------------------------------ events --------------------------------- *)
Ev(kind, repo, idx, out) == [kind |-> kind, repo |-> repo, idx |-> idx, out |-> out]

Positions(kind) == {k \in DOMAIN trace : trace[k].kind = kind}
PositionsFor(kind, repo) == {k \in DOMAIN trace : trace[k].kind = kind /\ trace[k].repo = repo}
CountFor(kind, repo) == Cardinality(PositionsFor(kind, repo))

(* --------------------- GitWorkspaceScanner.execute --------------------- *)
\* lines 91-92: optional slug filter
FilterBySlug(repos, only_repo_slug) ==
    IF only_repo_slug /= NoSlug
    THEN SelectSeq(repos, LAMBDA r : r = only_repo_slug)
    ELSE repos

\* all ordered samples of k distinct elements of repos (random.Random.sample)
Samples(repos, k) ==
    {s \in [1..k -> {repos[j] : j \in DOMAIN repos}] :
        \A a, b \in 1..k : a /= b => s[a] /= s[b]}

\* lines 103-108: optional limit; the set of lists the code can produce
LimitRepos(repos, max_repos, repo_selection) ==
    IF max_repos /= NoLimit /\ Len(repos) > max_repos
    THEN IF repo_selection = "random"
         THEN Samples(repos, max_repos)
         ELSE {SubSeq(repos, 1, max_repos)}
    ELSE {repos}

\* line 121
PlannedActions(actions) == [k \in DOMAIN actions |-> actions[k]]

\* mutation: the recorded operation is the opposite of the one invoked
SyncOperationInverted(exists_already) == IF exists_already THEN "clone" ELSE "pull"

\* line 134
SyncOperation(exists_already) == IF exists_already THEN "pull" ELSE "clone"

\* lines 149-160
DryRunSummary(slug, sync_operation, planned) ==
    [repo_slug |-> slug, sync_operation |-> sync_operation, dry_run |-> TRUE,
     planned_actions |-> planned, action_results |-> <<>>,
     success |-> TRUE, error |-> NoError]

\* mutation: only the last action result decides
ActionFailedLast(action_results) ==
    action_results /= <<>> /\ ~action_results[Len(action_results)].success

\* lines 184-189
ActionFailed(action_results) ==
    \E k \in DOMAIN action_results : ~action_results[k].success

FailedActions(action_results) ==
    LET bad == SelectSeq(action_results, LAMBDA r : ~r.success)
    IN [k \in DOMAIN bad |-> bad[k].action_name]

RepoError(action_results) ==
    IF ActionFailed(action_results)
    THEN [kind |-> "actions_failed", failed |-> FailedActions(action_results)]
    ELSE NoError

\* lines 202-213
RunSummary(slug, sync_operation, planned, action_results) ==
    [repo_slug |-> slug, sync_operation |-> sync_operation, dry_run |-> FALSE,
     planned_actions |-> planned, action_results |-> action_results,
     success |-> ~ActionFailed(action_results),
     error |-> RepoError(action_results)]

\* mutation: the exception is swallowed without an error message
ExceptionSummaryNoError(slug, sync_operation, planned) ==
    [repo_slug |-> slug, sync_operation |-> sync_operation, dry_run |-> FALSE,
     planned_actions |-> planned, action_results |-> <<>>,
     success |-> FALSE, error |-> NoError]

\* lines 235-246
ExceptionSummary(slug, sync_operation, planned) ==
    [repo_slug |-> slug, sync_operation |-> sync_operation, dry_run |-> FALSE,
     planned_actions |-> planned, action_results |-> <<>>,
     success |-> FALSE, error |-> [kind |-> "exception", failed |-> <<>>]]

\* mutation: a failed repository ends the loop whatever stop_on_error is
BreakAfterActionsAlways(action_results, stop_on_error) ==
    ActionFailed(action_results)

\* lines 215-224: break after a repository whose actions failed
BreakAfterActions(action_results, stop_on_error) ==
    ActionFailed(action_results) /\ stop_on_error

\* mutation: the break of the except branch is missing
BreakAfterExceptionNever(stop_on_error) == FALSE

\* mutation: the except branch breaks whatever stop_on_error is
BreakAfterExceptionAlways(stop_on_error) == TRUE

\* lines 247-255: break after a repository that raised
BreakAfterException(stop_on_error) == stop_on_error

\* line 257
FailedRepositories(items) == Cardinality({k \in DOMAIN items : ~items[k].success})

\* mutation: every summary is counted as successful
SuccessfulRepositoriesAsTotal(items) == Len(items)

\* line 258
SuccessfulRepositories(items) == Len(items) - FailedRepositories(items)

\* lines 260-267
ScanSummary(dry_run, items) ==
    [returned |-> TRUE, dry_run |-> dry_run, repositories |-> items,
     failed_repositories |-> FailedRepositories(items),
     successful_repositories |-> SuccessfulRepositories(items)]

NoSummary ==
    [returned |-> FALSE, dry_run |-> FALSE, repositories |-> <<>>,
     failed_repositories |-> 0, successful_repositories |-> 0]

\* the for loop of line 131 moves on, or ends (exhausted or break)
LoopNext(stop) ==
    IF stop \/ i >= Len(repositories)
    THEN /\ pc' = "aggregate"
         /\ i' = i
    ELSE /\ pc' = "loop"
         /\ i' = i + 1

\* mutation: the base directory is ensured in a dry run too
EnsureEventsAlways(dry_run) == <<Ev("ensure_directory", 0, 0, "ok")>>

\* lines 124-125
EnsureEvents(dry_run) ==
    IF dry_run THEN <<>> ELSE <<Ev("ensure_directory", 0, 0, "ok")>>

\* line 85: the provider returns its list
List ==
    /\ pc = "start"
    /\ repositories' \in ProviderLists
    /\ trace' = Append(trace, Ev("list_repositories", 0, 0, "ok"))
    /\ pc' = "select"
    /\ UNCHANGED <<args, i, exists, already_exists, summaries, summary,
                   runVars, sonarVars, others>>
    /\ UNCHANGED <<timeVars, sideVars>>

\* lines 91-129: filter, limit, planned actions, ensure the base directory;
\* only_repo_slug, max_repos and repo_selection are read here and nowhere else
Select ==
    /\ pc = "select"
    /\ \E only_repo_slug \in {NoSlug} \cup Slugs,
          max_repos \in {NoLimit} \cup (0..MaxRepos),
          repo_selection \in {"first", "random"} :
         \E selected \in LimitRepos(FilterBySlug(repositories, only_repo_slug),
                                     max_repos, repo_selection) :
            /\ repositories' = selected
            /\ IF Len(selected) = 0
               THEN pc' = "aggregate" /\ i' = 0
               ELSE pc' = "loop" /\ i' = 1
    /\ trace' = trace \o EnsureEvents(args.dry_run)
    /\ UNCHANGED <<args, exists, already_exists, summaries, summary,
                   runVars, sonarVars, others>>
    /\ UNCHANGED <<timeVars, sideVars>>

\* lines 131-169: start of one iteration; the whole iteration when dry_run
RepoBegin ==
    /\ pc = "loop"
    /\ LET slug == repositories[i]
           found == slug \in exists
       IN /\ already_exists' = found
          /\ trace' = Append(trace, Ev("path_exists", slug, 0,
                                       IF found THEN "true" ELSE "false"))
          /\ IF args.dry_run
             THEN /\ summaries' = Append(summaries,
                        DryRunSummary(slug, SyncOperation(found), PlannedActions(pipeline)))
                  /\ LoopNext(FALSE)
             ELSE /\ summaries' = summaries
                  /\ pc' = "sync"
                  /\ i' = i
    /\ UNCHANGED <<args, repositories, exists, summary, runVars, sonarVars, others>>
    /\ UNCHANGED <<timeVars, sideVars>>

\* lines 225-255: the except branch of one iteration
HandleException ==
    /\ summaries' = Append(summaries,
            ExceptionSummary(repositories[i], SyncOperation(already_exists),
                             PlannedActions(pipeline)))
    /\ LoopNext(BreakAfterException(args.stop_on_error))

\* mutation: the scanner runs the pipeline with fail_fast
ScannerFailFastOn == TRUE

\* line 182: action_pipeline.run(context) leaves fail_fast at its default
ScannerFailFast == FALSE

\* mutation: an existing working copy is not pulled
SyncEventsSkipPull(slug, exists_already, out) ==
    IF exists_already
    THEN <<>>
    ELSE <<Ev("get_clone_url", slug, 0, "ok"), Ev("clone", slug, 0, out)>>

\* lines 171-182: the sync call, then the call of action_pipeline.run(context)
SyncEvents(slug, exists_already, out) ==
    IF exists_already
    THEN <<Ev("pull", slug, 0, out)>>
    ELSE <<Ev("get_clone_url", slug, 0, "ok"), Ev("clone", slug, 0, out)>>

SyncOk ==
    /\ pc = "sync"
    /\ trace' = trace \o SyncEvents(repositories[i], already_exists, "ok")
    /\ exists' = exists \cup {repositories[i]}
    /\ fail_fast' = ScannerFailFast
    /\ aidx' = 1
    /\ results' = <<>>
    /\ pc' = IF Len(pipeline) = 0 THEN "returned" ELSE "run"
    /\ UNCHANGED <<args, repositories, i, already_exists, summaries,
                   summary, pipeline, sonarVars, others>>
    /\ UNCHANGED <<timeVars, sideVars>>

SyncRaises ==
    /\ pc = "sync"
    /\ trace' = trace \o SyncEvents(repositories[i], already_exists, "raise")
    /\ HandleException
    /\ UNCHANGED <<args, repositories, exists, already_exists,
                   summary, runVars, sonarVars, others>>
    /\ UNCHANGED <<timeVars, sideVars>>

(* --------------------- RunSonarScannerAction.execute ------------------- *)
\* sonar_scan.py line 536: value.rstrip("/") on the URLs of the model
RStripSlash(value) ==
    CASE value = "/" -> ""
      [] value = "https://s/" -> "https://s"
      [] OTHER -> value

\* sonar_scan.py lines 534-536: explicit argument, SONARQUBE_URL, SONAR_HOST_URL
ResolveSonarUrl(cfg) ==
    LET value == IF cfg.sonar_url /= None THEN cfg.sonar_url
                 ELSE IF cfg.env_SONARQUBE_URL /= None THEN cfg.env_SONARQUBE_URL
                 ELSE cfg.env_SONAR_HOST_URL
    IN IF value = None THEN None ELSE RStripSlash(value)

\* sonar_scan.py lines 538-539
ResolveSonarToken(cfg) ==
    IF cfg.sonar_token /= None THEN cfg.sonar_token
    ELSE IF cfg.env_SONARQUBE_TOKEN /= None THEN cfg.env_SONARQUBE_TOKEN
    ELSE cfg.env_SONAR_TOKEN

MissingConfigurationUrlOnly(sonar_url, sonar_token) ==
    sonar_url \in {None, ""}

\* sonar_scan.py lines 89 and 96: not sonar_url, not sonar_token
MissingConfiguration(sonar_url, sonar_token) ==
    sonar_url \in {None, ""} \/ sonar_token \in {None, ""}

\* sonar_scan.py lines 652-660; one key per (workspace, slug), the workspace
\* being fixed during a run
ProjectKey(slug) == slug

\* sonar_scan.py lines 709-712: "origin/<b>" gives <b>, anything else None
StripOrigin(value) ==
    CASE value = "origin/main" -> "main"
      [] value = "origin/dev" -> "dev"
      [] OTHER -> None

\* sonar_scan.py lines 678-712; cur and remote are the outputs of the two git
\* queries ("fail": the command failed)
ResolveGitBranch(cur, remote) ==
    IF cur \notin {"fail", "HEAD"} THEN cur
    ELSE IF remote = "fail" THEN None
    ELSE StripOrigin(remote)

\* the git queries of lines 104 and 107, in call order
GitQueryEvents(cur) ==
    <<"git_branch_query">>
    \o (IF cur \in {"fail", "HEAD"} THEN <<"git_remote_head_query">> ELSE <<>>)
    \o <<"git_revision_query">>

\* sonar_scan.py lines 714-716
StateKey(sonar_url, project_key, branch_name) ==
    <<sonar_url, project_key, IF branch_name = None THEN "default" ELSE branch_name>>

\* a state file: kind is "missing", "corrupt" (not JSON), "nonobject" (JSON
\* that is not an object), "noscans" (object whose scans is not an object) or
\* "scans"; scans is a set of [key, revision, status] with distinct keys
StateFileOf(kind, scans) == [kind |-> kind, scans |-> scans]
NoEntry == [revision |-> None, status |-> None]
\* the answers of the outside world before any dispatch has asked for them
NoInput ==
    [elapsed |-> 0, scan |-> "none", ce_id |-> FALSE, polls |-> <<>>, qg |-> "none",
     mb |-> <<"none", "none">>, trig |-> <<"none", "none">>,
     steps |-> <<"none", "none">>]

\* locals of execute: the stage reached, revision, branch_name, the state key,
\* the state file as found when the call began, success, final_status, the
\* endpoint-error marker and the ci_sonar_step_detected of the metadata
\* ("none" for None), and the answers the dispatch received
NoCall ==
    [stage |-> "none", revision |-> None, branch_name |-> None, key |-> <<>>,
     file |-> StateFileOf("missing", {}), success |-> FALSE, final_status |-> "",
     endpoint_error |-> None, ci_sonar_step_detected |-> "none", in |-> NoInput]

Lookup(scans, key) ==
    IF \E e \in scans : e.key = key
    THEN LET e == CHOOSE e \in scans : e.key = key
         IN [revision |-> e.revision, status |-> e.status]
    ELSE NoEntry

\* sonar_scan.py lines 721-741; a JSON value that is not an object makes
\* data.get raise AttributeError
LoadStateEntry(file, key) ==
    CASE file.kind = "nonobject" -> [raised |-> TRUE, entry |-> NoEntry]
      [] file.kind = "scans" -> [raised |-> FALSE, entry |-> Lookup(file.scans, key)]
      [] OTHER -> [raised |-> FALSE, entry |-> NoEntry]

\* mutation: force_scan does not close the gate
GateOpenForced(cfg, revision) == cfg.skip_unchanged /\ revision /= None

\* sonar_scan.py line 108
GateOpen(cfg, revision) ==
    cfg.skip_unchanged /\ ~cfg.force_scan /\ revision /= None

\* mutation: the status of the stored entry is not looked at
GateHitAnyStatus(entry, revision) ==
    entry /= NoEntry /\ entry.revision = revision

\* mutation: the gate looks for the status of a submitted scan
GateHitSubmitted(entry, revision) ==
    entry /= NoEntry /\ entry.revision = revision /\ entry.status = "SUBMITTED"

\* sonar_scan.py line 115
GateHit(entry, revision) ==
    entry /= NoEntry /\ entry.revision = revision /\ entry.status = "SUCCESS"

\* sonar_scan.py lines 549-556
ThrottleEvents(cfg, last, elapsed) ==
    IF cfg.submission_delay_seconds <= 0 \/ ~last THEN <<>>
    ELSE IF cfg.submission_delay_seconds - elapsed > 0 THEN <<"throttle_sleep">>
    ELSE <<>>

\* mutation: every outcome with a known revision is persisted
ShouldPersistAnyOutcome(success, revision) == revision /= None

\* sonar_scan.py line 219
ShouldPersist(success, revision) == success /\ revision /= None

\* mutation: the file is rewritten with the new entry alone
SaveStateEntryAlone(file, key, revision, final_status, save) ==
    CASE save = "mkdir_fails" -> [raised |-> TRUE, file |-> file, events |-> <<>>]
      [] file.kind = "nonobject" -> [raised |-> TRUE, file |-> file, events |-> <<>>]
      [] save = "write_fails" ->
             [raised |-> FALSE, file |-> file, events |-> <<"state_write_failed">>]
      [] OTHER ->
             [raised |-> FALSE,
              file |-> StateFileOf("scans", {[key |-> key, revision |-> revision,
                                              status |-> final_status]}),
              events |-> <<"state_write">>]

\* sonar_scan.py lines 743-784: read, merge, rewrite
SaveStateEntry(file, key, revision, final_status, save) ==
    LET old == IF file.kind = "scans" THEN file.scans ELSE {}
        merged == {e \in old : e.key /= key}
                  \cup {[key |-> key, revision |-> revision, status |-> final_status]}
    IN CASE save = "mkdir_fails" -> [raised |-> TRUE, file |-> file, events |-> <<>>]
         [] file.kind = "nonobject" -> [raised |-> TRUE, file |-> file, events |-> <<>>]
         [] save = "write_fails" ->
                [raised |-> FALSE, file |-> file, events |-> <<"state_write_failed">>]
         [] OTHER ->
                [raised |-> FALSE, file |-> StateFileOf("scans", merged),
                 events |-> <<"state_write">>]

\* mutation: only SUCCESS ends the wait
TerminalSuccessOnly == {"SUCCESS"}

\* sonar_scan.py line 571
Terminal == {"SUCCESS", "FAILED", "CANCELED"}

RECURSIVE FirstEnd(_, _)
\* index of the first poll that ends the wait loop (0: none does)
FirstEnd(polls, k) ==
    IF k > Len(polls) THEN 0
    ELSE IF polls[k] \in Terminal \cup {"nondict"} THEN k
    ELSE FirstEnd(polls, k + 1)

\* sonar_scan.py lines 558-586; polls are the successive responses of
\* _fetch_ce_task until the deadline passes
WaitForCeTask(polls) ==
    LET k == FirstEnd(polls, 1)
        n == IF k = 0 THEN Len(polls) ELSE k
        evs == [j \in 1..n |-> "ce_task_request"]
    IN IF k = 0 THEN [raised |-> FALSE, status |-> "TIMEOUT", events |-> evs]
       ELSE IF polls[k] = "nondict" THEN [raised |-> TRUE, status |-> "", events |-> evs]
       ELSE [raised |-> FALSE, status |-> polls[k], events |-> evs]

Raised(events, last) ==
    [raised |-> TRUE, success |-> FALSE, final_status |-> "", events |-> events,
     last |-> last, endpoint_error |-> None, ci_sonar_step_detected |-> "none"]
Outcome(success, final_status, events, last) ==
    [raised |-> FALSE, success |-> success, final_status |-> final_status,
     events |-> events, last |-> last, endpoint_error |-> None,
     ci_sonar_step_detected |-> "none"]

\* mutation: the CE task is awaited whatever wait_mode is
ExecuteLocalAlwaysWaits(cfg, in, last) ==
    IF ~cfg.has_scanner THEN Raised(<<>>, last)
    ELSE IF in.scan = "raise" THEN Raised(<<"scanner_run">>, last)
    ELSE IF in.scan /= "exit0" THEN Outcome(FALSE, "FAILED", <<"scanner_run">>, TRUE)
    ELSE IF ~in.ce_id THEN Outcome(FALSE, "FAILED", <<"scanner_run">>, TRUE)
    ELSE LET w == WaitForCeTask(in.polls)
             evs == <<"scanner_run">> \o w.events
         IN IF w.raised THEN Raised(evs, TRUE)
            ELSE IF w.status = "SUCCESS" THEN Outcome(TRUE, "SUCCESS", evs, TRUE)
            ELSE Outcome(FALSE, w.status, evs, TRUE)

\* sonar_scan.py lines 146-202
ExecuteLocal(cfg, in, last) ==
    IF ~cfg.has_scanner THEN Raised(<<>>, last)
    ELSE IF in.scan = "raise" THEN Raised(<<"scanner_run">>, last)
    ELSE IF in.scan /= "exit0" THEN Outcome(FALSE, "FAILED", <<"scanner_run">>, TRUE)
    ELSE IF cfg.wait_mode /= "sync" THEN Outcome(TRUE, "SUBMITTED", <<"scanner_run">>, TRUE)
    ELSE IF ~in.ce_id THEN Outcome(FALSE, "FAILED", <<"scanner_run">>, TRUE)
    ELSE LET w == WaitForCeTask(in.polls)
             evs == <<"scanner_run">> \o w.events
         IN IF w.raised THEN Raised(evs, TRUE)
            ELSE IF w.status = "SUCCESS" THEN Outcome(TRUE, "SUCCESS", evs, TRUE)
            ELSE Outcome(FALSE, w.status, evs, TRUE)

\* mutation: only the status OK passes the quality gate
QualityGateSuccessOkOnly(status) == status = "OK"

\* sonar_scan.py line 508
QualityGateSuccess(status) == status \in {"OK", "NONE"}

\* sonar_scan.py lines 616-650 and 490-532; in.qg is the status of the
\* projectStatus object received, "404", or the way the request failed
ExecuteCloudStatusCheck(cfg, in) ==
    LET evs == <<"quality_gate_request">>
        status == IF in.qg = "404" THEN "UNKNOWN" ELSE in.qg
        endpoint_error == IF in.qg = "404" THEN "HTTP 404" ELSE None
        skipped == status = "UNKNOWN" /\ endpoint_error /= None
        success == QualityGateSuccess(status) \/ skipped
        final_status == IF skipped THEN "SKIPPED_STATUS_CHECK"
                        ELSE IF success THEN "SUCCESS" ELSE status
    IN IF in.qg \in {"http_error", "url_error", "bad_json", "no_project_status"}
       THEN Raised(evs, TRUE)
       ELSE [Outcome(success, final_status, evs, TRUE)
                EXCEPT !.endpoint_error = endpoint_error]

\* sonar_scan.py lines 314-398 (and 446-485): one pipeline trigger
TriggerBitbucketPipeline(cfg, mb, trig, selector_override) ==
    LET pattern == IF selector_override /= None THEN selector_override
                   ELSE cfg.ci_selector
        pre == IF cfg.ci_ref_name = None THEN <<"ci_mainbranch_request">> ELSE <<>>
    IN IF ~cfg.ci_auth THEN [raised |-> TRUE, uuid |-> FALSE, selector |-> None, events |-> <<>>]
       ELSE IF cfg.ci_ref_name = None /\ mb = "raise"
            THEN [raised |-> TRUE, uuid |-> FALSE, selector |-> None, events |-> pre]
       ELSE IF trig = "raise"
            THEN [raised |-> TRUE, uuid |-> FALSE, selector |-> None,
                  events |-> pre \o <<"ci_trigger_request">>]
       ELSE [raised |-> FALSE, uuid |-> (trig = "uuid"), selector |-> pattern,
             events |-> pre \o <<"ci_trigger_request">>]

\* what the steps request can bring: the steps listed, one of them naming
\* sonar ("true") or none ("false"); no answer ("none", a URLError), an HTTP
\* error, a body that is not JSON, JSON that is not an object, or an object
\* whose values is not a list
StepsListed == {"true", "false"}
StepsInconclusive == {"none", "http_error", "bad_json", "nonobject", "values_not_list"}

\* mutation: whatever is not a listing with a Sonar step counts as missing
PipelineHasSonarStepStrict(uuid, steps) ==
    IF ~uuid THEN [detected |-> "false", events |-> <<>>]
    ELSE [detected |-> IF steps = "true" THEN "true" ELSE "false",
          events |-> <<"ci_steps_request">>]

\* sonar_scan.py lines 400-444: "true", "false" or "none" (inconclusive)
PipelineHasSonarStep(uuid, steps) ==
    IF ~uuid THEN [detected |-> "none", events |-> <<>>]
    ELSE [detected |-> IF steps \in StepsListed THEN steps ELSE "none",
          events |-> <<"ci_steps_request">>]

\* sonar_scan.py line 263: the fallback selector is the variable's value
\* stripped, "sonar-scan" when the variable is unset or empty
FallbackSelector(cfg) ==
    LET raw == IF cfg.env_SONAR_CI_SONAR_SELECTOR \in {None, ""} THEN "sonar-scan"
               ELSE cfg.env_SONAR_CI_SONAR_SELECTOR
    IN IF raw = " " THEN "" ELSE raw

RetryWithFallbackSameSelector(detected, fallback_selector, used_selector) ==
    detected = "false" /\ fallback_selector /= ""

\* sonar_scan.py lines 273-277: a second trigger is made with the fallback
RetryWithFallback(detected, fallback_selector, used_selector) ==
    /\ detected = "false"
    /\ fallback_selector /= ""
    /\ fallback_selector /= used_selector

\* sonar_scan.py lines 238-312
ExecuteCiTrigger(cfg, in) ==
    IF cfg.ci_provider /= "bitbucket" THEN Raised(<<>>, TRUE)
    ELSE
    LET t1 == TriggerBitbucketPipeline(cfg, in.mb[1], in.trig[1], None)
    IN IF t1.raised THEN Raised(t1.events, TRUE)
       ELSE IF ~cfg.ci_verify THEN Outcome(TRUE, "SUBMITTED", t1.events, TRUE)
       ELSE
       LET s1 == PipelineHasSonarStep(t1.uuid, in.steps[1])
           e1 == t1.events \o s1.events
           fallback_selector == FallbackSelector(cfg)
       IN IF RetryWithFallback(s1.detected, fallback_selector, t1.selector)
          THEN LET t2 == TriggerBitbucketPipeline(cfg, in.mb[2], in.trig[2], fallback_selector)
               IN IF t2.raised THEN Raised(e1 \o t2.events, TRUE)
                  ELSE LET s2 == PipelineHasSonarStep(t2.uuid, in.steps[2])
                           e2 == e1 \o t2.events \o s2.events
                       IN IF s2.detected = "false" THEN Raised(e2, TRUE)
                          ELSE [Outcome(TRUE, "SUBMITTED", e2, TRUE)
                                  EXCEPT !.ci_sonar_step_detected = s2.detected]
          ELSE IF s1.detected = "false" THEN Raised(e1, TRUE)
          ELSE [Outcome(TRUE, "SUBMITTED", e1, TRUE)
                  EXCEPT !.ci_sonar_step_detected = s1.detected]

\* sonar_scan.py lines 131-202: throttle, then dispatch by mode
Submit(cfg, in, last) ==
    LET th == ThrottleEvents(cfg, last, in.elapsed)
        d == CASE cfg.execution_mode = "cloud" -> ExecuteCloudStatusCheck(cfg, in)
               [] cfg.execution_mode = "ci" -> ExecuteCiTrigger(cfg, in)
               [] OTHER -> ExecuteLocal(cfg, in, last)
    IN [d EXCEPT !.events = th \o @]

SonarResult(success, reason, final_status, revision) ==
    [action_name |-> SonarName, success |-> success, reason |-> reason,
     final_status |-> final_status, revision |-> revision]

(* ------------------- the environment of one execute -------------------- *)
\* what the outside world answers while execute throttles and dispatches
Input(elapsed, local, qg, ci) ==
    [elapsed |-> elapsed, scan |-> local[1], ce_id |-> local[2],
     polls |-> local[3], qg |-> qg, mb |-> ci[1], trig |-> ci[2], steps |-> ci[3]]

PollResponses == {"error", "PENDING", "SUCCESS", "FAILED", "CANCELED", "nondict"}

\* response sequences in which only the last response can end the wait
PollSeqs(responses, n) ==
    {p \in UNION {[1..m -> responses] : m \in 1..n} :
        \A k \in 1..(Len(p) - 1) : p[k] \notin Terminal \cup {"nondict"}}

LocalAnswers(cfg, responses, n) ==
    {<<"raise", FALSE, <<>>>>, <<"exit1", FALSE, <<>>>>, <<"exit0", FALSE, <<>>>>}
    \cup (IF cfg.wait_mode = "sync"
          THEN {<<"exit0", TRUE, p>> : p \in PollSeqs(responses, n)}
          ELSE {<<"exit0", TRUE, <<>>>>})

QualityGateAnswers ==
    {"OK", "NONE", "ERROR", "WARN", "UNKNOWN", "404",
     "http_error", "url_error", "bad_json", "no_project_status"}

CiFirst == {<<"ok", "ok">>, <<"raise", "ok">>} \X
           {<<"raise", "uuid">>, <<"nouuid", "uuid">>, <<"uuid", "uuid">>} \X
           ({<<"true", "true">>, <<"false", "true">>}
            \cup {<<s, "true">> : s \in StepsInconclusive})
CiSecond == {<<"ok", "ok">>, <<"ok", "raise">>} \X
            {<<"uuid", "raise">>, <<"uuid", "nouuid">>, <<"uuid", "uuid">>} \X
            ({<<"false", "true">>, <<"false", "false">>}
             \cup {<<"false", s>> : s \in StepsInconclusive})
CiAnswers == CiFirst \cup CiSecond

DefaultLocal == <<"exit0", TRUE, <<"SUCCESS">>>>
DefaultCi == <<<<"ok", "ok">>, <<"uuid", "uuid">>, <<"true", "true">>>>

ElapsedAnswers(cfg, last) ==
    IF last /\ cfg.submission_delay_seconds > 0
    THEN {0, cfg.submission_delay_seconds} ELSE {0}

\* the git answers <<current branch query, remote HEAD query>> and revisions;
\* callers: "pipeline" (a workspace scan), "direct" (repeated calls that
\* explore the idempotence gate), "dispatch" (repeated calls that explore
\* the mode dispatch), "rerun" (one call after another, both remembered)
GitAnswers(who) ==
    CASE who = "direct" ->
           {<<"main", "fail">>, <<"HEAD", "origin/dev">>, <<"HEAD", "main">>, <<"fail", "fail">>}
      [] who = "rerun" -> {<<"main", "fail">>, <<"HEAD", "origin/dev">>}
      [] OTHER -> {<<"main", "fail">>}

RevisionAnswers(who) ==
    CASE who = "direct" -> {"r1", "r2", None}
      [] who = "rerun" -> {"r1", "r2", None}
      [] who = "dispatch" -> {"r1", None}
      [] OTHER -> {"r1"}

\* every environment of one dispatch of an instance configured by cfg; fewer
\* of them are drawn while a whole workspace is scanned or the gate explored
SubmitAnswers(cfg, who, last) ==
    {Input(e, l, q, c) :
        e \in ElapsedAnswers(cfg, last),
        l \in (IF cfg.execution_mode /= "local" THEN {DefaultLocal}
               ELSE IF who = "dispatch" THEN LocalAnswers(cfg, PollResponses, MaxPolls)
               ELSE IF who = "rerun"
               THEN {<<"exit1", FALSE, <<>>>>, <<"exit0", TRUE, <<"FAILED">>>>, DefaultLocal}
               ELSE {<<"raise", FALSE, <<>>>>, <<"exit1", FALSE, <<>>>>, DefaultLocal}),
        q \in (IF cfg.execution_mode /= "cloud" THEN {"OK"}
               ELSE IF who = "dispatch" THEN QualityGateAnswers
               ELSE IF who = "rerun" THEN {"OK", "NONE", "ERROR", "404"}
               ELSE {"OK", "ERROR", "url_error"}),
        c \in (IF cfg.execution_mode /= "ci" THEN {DefaultCi}
               ELSE IF who = "dispatch" THEN CiAnswers
               ELSE IF who = "rerun" THEN {DefaultCi}
               ELSE {DefaultCi, <<<<"ok", "ok">>, <<"uuid", "uuid">>, <<"false", "false">>>>})}

SaveAnswers(who) ==
    IF who /= "pipeline" THEN {"ok", "write_fails", "mkdir_fails"} ELSE {"ok"}

(* ----------------------- configurations and files ---------------------- *)
SubmissionDelay == 2

SonarDefault ==
    [sonar_url |-> "https://s", sonar_token |-> "tok",
     env_SONARQUBE_URL |-> None, env_SONAR_HOST_URL |-> None,
     env_SONARQUBE_TOKEN |-> None, env_SONAR_TOKEN |-> None,
     execution_mode |-> "cloud", wait_mode |-> "sync",
     submission_delay_seconds |-> 0, skip_unchanged |-> TRUE,
     force_scan |-> FALSE, branch_analysis |-> FALSE, has_scanner |-> TRUE,
     ci_provider |-> "bitbucket", ci_auth |-> TRUE, ci_ref_name |-> "main",
     ci_selector |-> None, env_SONAR_CI_SONAR_SELECTOR |-> None,
     ci_verify |-> TRUE]

ModeChoices ==
    {<<"local", "sync">>, <<"local", "async">>, <<"cloud", "sync">>, <<"ci", "sync">>}

GateConfigs ==
    {[SonarDefault EXCEPT !.execution_mode = m[1], !.wait_mode = m[2],
                          !.skip_unchanged = sk, !.force_scan = fo,
                          !.branch_analysis = ba, !.submission_delay_seconds = d] :
        m \in ModeChoices, sk \in BOOLEAN, fo \in BOOLEAN, ba \in BOOLEAN,
        d \in {0, SubmissionDelay}}

ResolveConfigs ==
    {[SonarDefault EXCEPT !.sonar_url = a, !.env_SONARQUBE_URL = q,
                          !.env_SONAR_HOST_URL = h] :
        a \in {None, "/", "https://s", "https://s/"}, q \in {None, "https://q"},
        h \in {None, "https://h"}}
    \cup
    {[SonarDefault EXCEPT !.sonar_token = a, !.env_SONARQUBE_TOKEN = q,
                          !.env_SONAR_TOKEN = h] :
        a \in {None, "tok"}, q \in {None, "tokq"}, h \in {None, "tokh"}}

CiConfigs ==
    {[SonarDefault EXCEPT !.execution_mode = "ci", !.ci_ref_name = rn,
                          !.ci_selector = se,
                          !.env_SONAR_CI_SONAR_SELECTOR = fb, !.ci_verify = ve] :
        rn \in {None, "main"}, se \in {None, "sonar-scan", "build"},
        fb \in {None, " ", "sonar-scan", "sonar-nightly"}, ve \in BOOLEAN}
    \cup {[SonarDefault EXCEPT !.execution_mode = "ci", !.ci_provider = "github"],
          [SonarDefault EXCEPT !.execution_mode = "ci", !.ci_auth = FALSE],
          [SonarDefault EXCEPT !.execution_mode = "local", !.has_scanner = FALSE]}

SonarConfigs == GateConfigs \cup ResolveConfigs \cup CiConfigs

\* the configurations whose dispatch is explored
DispatchConfigs ==
    {[SonarDefault EXCEPT !.execution_mode = m[1], !.wait_mode = m[2],
                          !.submission_delay_seconds = d] :
        m \in ModeChoices, d \in {0, SubmissionDelay}}
    \cup ResolveConfigs \cup CiConfigs

\* the configurations drawn while a whole workspace is scanned
ScanSonarConfigs ==
    {[SonarDefault EXCEPT !.execution_mode = m[1], !.wait_mode = m[2],
                          !.submission_delay_seconds = SubmissionDelay] :
        m \in ModeChoices}

Entry(key, revision, status) == [key |-> key, revision |-> revision, status |-> status]

\* state files a working copy of slug can hold before a call
StateFiles(cfg, slug) ==
    LET url == ResolveSonarUrl(cfg)
        own == {Entry(StateKey(url, ProjectKey(slug), b), "r1", st) :
                    b \in {None, "main"}, st \in {"SUCCESS", "SUBMITTED"}}
        foreign == Entry(StateKey("https://other", ProjectKey(slug), None), "r1", "SUCCESS")
    IN {StateFileOf(k, {}) : k \in {"missing", "corrupt", "nonobject", "noscans", "scans"}}
       \cup {StateFileOf("scans", {e}) : e \in own \cup {foreign}}
       \cup {StateFileOf("scans", {e, foreign}) : e \in own}

\* the state files drawn while a whole workspace is scanned: none yet, or
\* the record of a successful scan of revision r1
ScanStateFiles(cfg) ==
    {[s \in Slugs |-> StateFileOf("missing", {})],
     [s \in Slugs |-> StateFileOf("scans",
        {Entry(StateKey(ResolveSonarUrl(cfg), ProjectKey(s), None), "r1", "SUCCESS")})]}

(* -------------------------- ActionPipeline.run ------------------------- *)
\* actions.py lines 59-61: the pipeline fills a blank action_name
FillName(result, name) ==
    [result EXCEPT !.action_name = IF result.action_name = "" THEN name ELSE @]

\* mutation: fail_fast stops at the first successful action
RunStopsInverted(ff, result) == ff /\ result.success

\* actions.py lines 62-63
RunStops(ff, result) == ff /\ ~result.success

\* the repository the running pipeline works on
CurrentRepo == IF i \in DOMAIN repositories THEN repositories[i] ELSE 0

\* the for loop of actions.py line 57 moves on, or run returns
RunNext(result) ==
    /\ results' = Append(results, FillName(result, pipeline[aidx]))
    /\ IF RunStops(fail_fast, result) \/ aidx >= Len(pipeline)
       THEN pc' = "returned" /\ aidx' = aidx
       ELSE pc' = "run" /\ aidx' = aidx + 1

\* a generic Action.execute returns a result (its name possibly blank)
GenericReturns ==
    /\ pc = "run"
    /\ pipeline[aidx] = GenericName
    /\ \E ok \in BOOLEAN, nm \in {"", GenericName} :
         /\ RunNext([action_name |-> nm, success |-> ok, reason |-> "",
                     final_status |-> "", revision |-> None])
         /\ trace' = trace \o <<Ev("action_start", CurrentRepo, aidx, "ok"),
                                 Ev("action_end", CurrentRepo, aidx,
                                    IF ok THEN "ok" ELSE "fail")>>
    /\ UNCHANGED <<scanVars, pipeline, fail_fast, sonarVars, others>>
    /\ UNCHANGED <<timeVars, sideVars>>

\* a generic Action.execute raises: run propagates the exception to its caller
GenericRaises ==
    /\ pc = "run"
    /\ pipeline[aidx] = GenericName
    /\ trace' = trace \o <<Ev("action_start", CurrentRepo, aidx, "ok"),
                            Ev("action_end", CurrentRepo, aidx, "raise")>>
    /\ pc' = "raised"
    /\ UNCHANGED <<scanVars, runVars, sonarVars, others>>
    /\ UNCHANGED <<timeVars, sideVars>>

(* ------------- RunSonarScannerAction.execute, step by step ------------- *)
Events(kinds, out) ==
    [k \in DOMAIN kinds |-> Ev(kinds[k], CurrentRepo, aidx, out)]

\* what a direct caller keeps of one call: its outcome; the caller that runs
\* execute twice keeps the state key and whether the state file was written
HistoryEntry(c, raised, result, kinds) ==
    IF caller = "rerun"
    THEN [raised |-> raised, result |-> result, key |-> c.key,
          written |-> \E k \in DOMAIN kinds : kinds[k] = "state_write"]
    ELSE [raised |-> raised, result |-> result]

\* execute returns result to its caller: the pipeline's loop, or a direct caller
SonarReturn(c, result, kinds) ==
    /\ trace' = trace \o Events(kinds, "ok")
                      \o <<Ev("action_end", CurrentRepo, aidx,
                              IF result.success THEN "ok" ELSE "fail")>>
    /\ call' = [c EXCEPT !.stage = "done"]
    /\ IF caller = "pipeline"
       THEN RunNext(result) /\ history' = history
       ELSE /\ pc' = "idle"
            /\ history' = Append(history, HistoryEntry(c, FALSE, result, kinds))
            /\ UNCHANGED <<aidx, results>>

\* execute raises: the exception leaves the pipeline's run as well
SonarRaise(c, kinds) ==
    /\ trace' = trace \o Events(kinds, "ok")
                      \o <<Ev("action_end", CurrentRepo, aidx, "raise")>>
    /\ call' = [c EXCEPT !.stage = "done"]
    /\ UNCHANGED <<aidx, results>>
    /\ IF caller = "pipeline"
       THEN pc' = "raised" /\ history' = history
       ELSE /\ pc' = "idle"
            /\ history' = Append(history,
                    HistoryEntry(c, TRUE, SonarResult(FALSE, "", "", None), kinds))

\* sonar_scan.py lines 86-129: resolve the configuration, query git, and pass
\* the idempotence gate
SonarBegin ==
    /\ pc = "run"
    /\ pipeline[aidx] = SonarName
    /\ call.stage \in {"none", "done"}
    /\ \E g \in GitAnswers(caller), revision \in RevisionAnswers(caller) :
         LET sonar_url == ResolveSonarUrl(sonar)
             sonar_token == ResolveSonarToken(sonar)
             branch_name == ResolveGitBranch(g[1], g[2])
             scanner_branch_name == IF sonar.branch_analysis THEN branch_name ELSE None
             key == StateKey(sonar_url, ProjectKey(CurrentRepo), scanner_branch_name)
             gate == GateOpen(sonar, revision)
             loaded == LoadStateEntry(stateFile[CurrentRepo], key)
             start == <<"action_start">>
             c == [stage |-> "submit", revision |-> revision,
                   branch_name |-> branch_name, key |-> key,
                   file |-> stateFile[CurrentRepo], success |-> FALSE,
                   final_status |-> "", endpoint_error |-> None,
                   ci_sonar_step_detected |-> "none", in |-> NoInput]
             pre == start \o GitQueryEvents(g[1])
                          \o (IF gate THEN <<"state_read">> ELSE <<>>)
         IN IF MissingConfiguration(sonar_url, sonar_token)
            THEN SonarReturn(c, SonarResult(FALSE, "", "", None), start)
            ELSE IF gate /\ loaded.raised
            THEN SonarRaise(c, pre)
            ELSE IF gate /\ GateHit(loaded.entry, revision)
            THEN SonarReturn(c, SonarResult(TRUE, "unchanged", "", revision), pre)
            ELSE /\ trace' = trace \o Events(pre, "ok")
                 /\ call' = c
                 /\ UNCHANGED <<pc, aidx, results, history>>
    /\ UNCHANGED <<scanVars, pipeline, fail_fast, sonarVars, caller>>
    /\ UNCHANGED <<timeVars, sideVars>>

\* sonar_scan.py lines 131-217: throttle and dispatch by mode
SonarSubmit ==
    /\ call.stage = "submit"
    /\ \E in \in SubmitAnswers(sonar, caller, last_submission[aidx]) :
         LET sub == Submit(sonar, in, last_submission[aidx])
             c == [call EXCEPT !.in = in, !.success = sub.success,
                               !.final_status = sub.final_status,
                               !.endpoint_error = sub.endpoint_error,
                               !.ci_sonar_step_detected = sub.ci_sonar_step_detected]
         IN /\ last_submission' = [last_submission EXCEPT ![aidx] = sub.last]
            /\ IF sub.raised THEN SonarRaise(c, sub.events)
               ELSE IF ShouldPersist(sub.success, call.revision)
               THEN /\ trace' = trace \o Events(sub.events, "ok")
                    /\ call' = [c EXCEPT !.stage = "persist"]
                    /\ UNCHANGED <<pc, aidx, results, history>>
               ELSE SonarReturn(c, SonarResult(sub.success, "", sub.final_status,
                                               call.revision), sub.events)
    /\ UNCHANGED <<scanVars, pipeline, fail_fast, sonar, stateFile, caller>>
    /\ UNCHANGED <<timeVars, sideVars>>

\* sonar_scan.py lines 219-236: persist the successful outcome and return
SonarPersist ==
    /\ call.stage = "persist"
    /\ \E save \in SaveAnswers(caller) :
         LET sv == SaveStateEntry(stateFile[CurrentRepo], call.key, call.revision,
                                  call.final_status, save)
         IN /\ stateFile' = [stateFile EXCEPT ![CurrentRepo] = sv.file]
            /\ IF sv.raised THEN SonarRaise(call, sv.events)
               ELSE SonarReturn(call, SonarResult(call.success, "", call.final_status,
                                                  call.revision), sv.events)
    /\ UNCHANGED <<scanVars, pipeline, fail_fast, sonar, last_submission, caller>>
    /\ UNCHANGED <<timeVars, sideVars>>

(* ------------- GitWorkspaceScanner.execute, after the pipeline --------- *)
\* lines 184-224: run returned
Record ==
    /\ pc = "returned"
    /\ summaries' = Append(summaries,
            RunSummary(repositories[i], SyncOperation(already_exists),
                       PlannedActions(pipeline), results))
    /\ LoopNext(BreakAfterActions(results, args.stop_on_error))
    /\ UNCHANGED <<args, repositories, exists, already_exists,
                   summary, runVars, sonarVars, others, trace>>
    /\ UNCHANGED <<timeVars, sideVars>>

\* lines 225-255: run raised
Except ==
    /\ pc = "raised"
    /\ HandleException
    /\ UNCHANGED <<args, repositories, exists, already_exists,
                   summary, runVars, sonarVars, others, trace>>
    /\ UNCHANGED <<timeVars, sideVars>>

\* lines 257-281
Aggregate ==
    /\ pc = "aggregate"
    /\ summary' = ScanSummary(args.dry_run, summaries)
    /\ pc' = "done"
    /\ UNCHANGED <<args, repositories, i, exists, already_exists,
                   summaries, runVars, sonarVars, others, trace>>
    /\ UNCHANGED <<timeVars, sideVars>>

(* ----------------------------- specifications -------------------------- *)
ScanArgs ==
    [dry_run : BOOLEAN, stop_on_error : BOOLEAN]

Range(f) == {f[k] : k \in DOMAIN f}

NoInstanceSubmitted == [k \in 1..(MaxActions + 1) |-> FALSE]

Init ==
    /\ pc = "start"
    /\ args \in ScanArgs
    /\ pipeline \in Pipelines
    /\ repositories = <<>>
    /\ i = 0
    /\ exists \in SUBSET Slugs
    /\ already_exists = FALSE
    /\ summaries = <<>>
    /\ summary = NoSummary
    /\ fail_fast = FALSE
    /\ aidx = 0
    /\ results = <<>>
    /\ sonar \in (IF SonarName \in Range(pipeline) /\ ~args.dry_run
                  THEN ScanSonarConfigs ELSE {SonarDefault})
    /\ stateFile \in (IF SonarName \in Range(pipeline) /\ ~args.dry_run
                      THEN ScanStateFiles(sonar)
                      ELSE {[s \in Slugs |-> StateFileOf("missing", {})]})
    /\ last_submission = NoInstanceSubmitted
    /\ call = NoCall
    /\ caller = "pipeline"
    /\ history = <<>>
    /\ trace = <<>>
    /\ TimeIdle
    /\ SideIdle

Next ==
    \/ List
    \/ Select
    \/ RepoBegin
    \/ SyncOk
    \/ SyncRaises
    \/ GenericReturns
    \/ GenericRaises
    \/ SonarBegin
    \/ SonarSubmit
    \/ SonarPersist
    \/ Record
    \/ Except
    \/ Aggregate

Spec == Init /\ [][Next]_vars

(* ---------------- ActionPipeline.run called directly -------------------- *)
InitPipeline ==
    /\ pipeline \in Pipelines
    /\ fail_fast \in BOOLEAN
    /\ pc = IF Len(pipeline) = 0 THEN "returned" ELSE "run"
    /\ aidx = 1
    /\ results = <<>>
    /\ args = [dry_run |-> FALSE, stop_on_error |-> FALSE]
    /\ repositories = <<1>>
    /\ i = 1
    /\ exists = {1}
    /\ already_exists = TRUE
    /\ summaries = <<>>
    /\ summary = NoSummary
    /\ sonar \in (IF SonarName \in Range(pipeline)
                  THEN ScanSonarConfigs ELSE {SonarDefault})
    /\ stateFile \in (IF SonarName \in Range(pipeline)
                      THEN ScanStateFiles(sonar)
                      ELSE {[s \in Slugs |-> StateFileOf("missing", {})]})
    /\ last_submission = NoInstanceSubmitted
    /\ call = NoCall
    /\ caller = "pipeline"
    /\ history = <<>>
    /\ trace = <<>>
    /\ TimeIdle
    /\ SideIdle

NextPipeline ==
    \/ GenericReturns
    \/ GenericRaises
    \/ SonarBegin
    \/ SonarSubmit
    \/ SonarPersist

SpecPipeline == InitPipeline /\ [][NextPipeline]_vars

(* ---------- RunSonarScannerAction.execute called directly -------------- *)
\* one instance is called again and again on the working copy of slug 1;
\* trace holds the events of the latest call, history its outcome
Execute ==
    /\ pc = "idle"
    /\ pc' = "run"
    /\ trace' = <<>>
    /\ history' = <<>>
    /\ call' = NoCall
    /\ UNCHANGED <<scanVars, runVars, sonarVars, caller>>
    /\ UNCHANGED <<timeVars, sideVars>>

InitSonar ==
    /\ pc = "idle"
    /\ sonar \in SonarConfigs
    /\ \E f \in StateFiles(sonar, 1) :
         stateFile = [s \in Slugs |-> IF s = 1 THEN f ELSE StateFileOf("missing", {})]
    /\ last_submission = NoInstanceSubmitted
    /\ call = NoCall
    /\ caller = "direct"
    /\ history = <<>>
    /\ trace = <<>>
    /\ pipeline = <<SonarName>>
    /\ fail_fast = FALSE
    /\ aidx = 1
    /\ results = <<>>
    /\ args = [dry_run |-> FALSE, stop_on_error |-> FALSE]
    /\ repositories = <<1>>
    /\ i = 1
    /\ exists = {1}
    /\ already_exists = TRUE
    /\ summaries = <<>>
    /\ summary = NoSummary
    /\ TimeIdle
    /\ SideIdle

NextSonar ==
    \/ Execute
    \/ SonarBegin
    \/ SonarSubmit
    \/ SonarPersist

SpecSonar == InitSonar /\ [][NextSonar]_vars

(* ------ RunSonarScannerAction.execute called directly: the dispatch ---- *)
InitDispatch ==
    /\ pc = "idle"
    /\ sonar \in DispatchConfigs
    /\ \E f \in StateFiles(sonar, 1) :
         stateFile = [s \in Slugs |-> IF s = 1 THEN f ELSE StateFileOf("missing", {})]
    /\ last_submission = NoInstanceSubmitted
    /\ call = NoCall
    /\ caller = "dispatch"
    /\ history = <<>>
    /\ trace = <<>>
    /\ pipeline = <<SonarName>>
    /\ fail_fast = FALSE
    /\ aidx = 1
    /\ results = <<>>
    /\ args = [dry_run |-> FALSE, stop_on_error |-> FALSE]
    /\ repositories = <<1>>
    /\ i = 1
    /\ exists = {1}
    /\ already_exists = TRUE
    /\ summaries = <<>>
    /\ summary = NoSummary
    /\ TimeIdle
    /\ SideIdle

NextDispatch ==
    \/ Execute
    \/ SonarBegin
    \/ SonarSubmit
    \/ SonarPersist

SpecDispatch == InitDispatch /\ [][NextDispatch]_vars

(* ------- RunSonarScannerAction.execute called twice in a row ----------- *)
\* one instance is called MaxExecutes times on the working copy of slug 1;
\* history holds the outcome of every call, trace the events of the latest
MaxExecutes == 2

RerunConfigs ==
    {[SonarDefault EXCEPT !.execution_mode = m[1], !.wait_mode = m[2],
                          !.skip_unchanged = sk, !.force_scan = fo,
                          !.branch_analysis = ba] :
        m \in ModeChoices, sk \in BOOLEAN, fo \in BOOLEAN, ba \in BOOLEAN}

ExecuteAgain ==
    /\ pc = "idle"
    /\ Len(history) < MaxExecutes
    /\ pc' = "run"
    /\ trace' = <<>>
    /\ call' = NoCall
    /\ UNCHANGED <<scanVars, runVars, sonarVars, caller, history>>
    /\ UNCHANGED <<timeVars, sideVars>>

InitRerun ==
    /\ pc = "idle"
    /\ sonar \in RerunConfigs
    /\ \E f \in StateFiles(sonar, 1) :
         stateFile = [s \in Slugs |-> IF s = 1 THEN f ELSE StateFileOf("missing", {})]
    /\ last_submission = NoInstanceSubmitted
    /\ call = NoCall
    /\ caller = "rerun"
    /\ history = <<>>
    /\ trace = <<>>
    /\ pipeline = <<SonarName>>
    /\ fail_fast = FALSE
    /\ aidx = 1
    /\ results = <<>>
    /\ args = [dry_run |-> FALSE, stop_on_error |-> FALSE]
    /\ repositories = <<1>>
    /\ i = 1
    /\ exists = {1}
    /\ already_exists = TRUE
    /\ summaries = <<>>
    /\ summary = NoSummary
    /\ TimeIdle
    /\ SideIdle

NextRerun ==
    \/ ExecuteAgain
    \/ SonarBegin
    \/ SonarSubmit
    \/ SonarPersist

SpecRerun == InitRerun /\ [][NextRerun]_vars

(* ------------------- _wait_for_ce_task, seen in time ------------------- *)
\* sonar_scan.py line 601: the HTTP timeout of one poll request is
\* poll_interval_seconds + 5.0
HttpSlack == 5

\* what one call of _fetch_ce_task can meet: a URLError or HTTPError, a body
\* that is not JSON, a JSON object without a task object, a JSON value that
\* is not an object, or a task with a status
FetchResponses ==
    {"url_error", "bad_json", "no_task", "nondict",
     "PENDING", "SUCCESS", "FAILED", "CANCELED"}

\* lines 600-613: the responses for which _fetch_ce_task raises RuntimeError
FetchRuntimeErrors == {"url_error", "bad_json", "no_task"}

\* lines 559-560
WaitBegin ==
    /\ wait.pc = "idle"
    /\ wait' = [wait EXCEPT !.pc = "loop", !.started = now,
                            !.deadline = now + wait.wait_timeout_seconds,
                            !.last_error = None]
    /\ UNCHANGED sideVars
    /\ UNCHANGED <<pc, scanVars, runVars, sonarVars, call, caller, history, trace,
                   now, throttle>>

\* lines 562-580: one iteration of the loop; the request takes dt seconds,
\* at most its HTTP timeout
Poll ==
    /\ wait.pc = "loop"
    /\ now < wait.deadline
    /\ \E r \in FetchResponses,
          dt \in 0..(wait.poll_interval_seconds + HttpSlack) :
         LET seen == [wait EXCEPT !.responses = Append(@, r)]
         IN CASE r \in FetchRuntimeErrors ->
                   /\ wait' = [seen EXCEPT !.last_error = r]
                   /\ now' = now + dt + wait.poll_interval_seconds
              [] r = "nondict" ->
                   /\ wait' = [seen EXCEPT !.pc = "raised"]
                   /\ now' = now + dt
              [] r \in Terminal ->
                   /\ wait' = [seen EXCEPT !.pc = "returned", !.status = r]
                   /\ now' = now + dt
              [] OTHER ->
                   /\ wait' = seen
                   /\ now' = now + dt + wait.poll_interval_seconds
    /\ UNCHANGED sideVars
    /\ UNCHANGED <<pc, scanVars, runVars, sonarVars, call, caller, history, trace,
                   throttle>>

\* lines 562 and 582-586: the deadline has passed
Deadline ==
    /\ wait.pc = "loop"
    /\ now >= wait.deadline
    /\ wait' = [wait EXCEPT !.pc = "returned", !.status = "TIMEOUT"]
    /\ UNCHANGED sideVars
    /\ UNCHANGED <<pc, scanVars, runVars, sonarVars, call, caller, history, trace,
                   now, throttle>>

InitWait ==
    /\ pc = "idle"
    /\ args = [dry_run |-> FALSE, stop_on_error |-> FALSE]
    /\ pipeline = <<SonarName>>
    /\ repositories = <<1>>
    /\ i = 1
    /\ exists = {1}
    /\ already_exists = TRUE
    /\ summaries = <<>>
    /\ summary = NoSummary
    /\ fail_fast = FALSE
    /\ aidx = 1
    /\ results = <<>>
    /\ sonar = [SonarDefault EXCEPT !.execution_mode = "local"]
    /\ stateFile = [s \in Slugs |-> StateFileOf("missing", {})]
    /\ last_submission = NoInstanceSubmitted
    /\ call = NoCall
    /\ caller = "wait"
    /\ history = <<>>
    /\ trace = <<>>
    /\ now = 0
    /\ throttle = NoThrottle
    /\ SideIdle
    /\ \E w \in 1..MaxWait, p \in 1..MaxInterval :
          wait = [NoWait EXCEPT !.wait_timeout_seconds = w,
                                !.poll_interval_seconds = p]

NextWait ==
    \/ WaitBegin
    \/ Poll
    \/ Deadline

SpecWait == InitWait /\ [][NextWait]_vars

(* ------------- throttling of one instance, seen in time ---------------- *)
\* sonar_scan.py lines 549-556: the seconds _throttle_submission_if_needed
\* sleeps at time t
ThrottleSleep(delay, last, t) ==
    IF delay <= 0 \/ last = NoTime THEN 0
    ELSE IF delay - (t - last) > 0 THEN delay - (t - last)
    ELSE 0

\* line 131: an execution that passed the gate throttles, idle seconds after
\* the previous execution ended, and then reaches the mode dispatch
Throttle ==
    /\ throttle.pc = "idle"
    /\ Len(throttle.starts) < MaxSubmissions
    /\ \E idle \in 0..sonar.submission_delay_seconds :
         LET t == now + idle
             start == t + ThrottleSleep(sonar.submission_delay_seconds,
                                        throttle.last_submission_monotonic, t)
         IN /\ now' = start
            /\ throttle' = [throttle EXCEPT !.pc = "dispatch",
                                            !.starts = Append(@, start)]
    /\ UNCHANGED sideVars
    /\ UNCHANGED <<pc, scanVars, runVars, sonarVars, call, caller, history, trace,
                   wait>>

\* lines 132-156, 246 and 498: the dispatch sets _last_submission_monotonic
\* at its start in cloud and ci mode, and after scanner.run has returned in
\* local mode; it lasts dt seconds
Dispatch ==
    /\ throttle.pc = "dispatch"
    /\ \E dt \in 0..MaxRun, run \in {"returns", "raises"} :
         /\ now' = IF sonar.execution_mode = "local" /\ ~sonar.has_scanner
                   THEN now ELSE now + dt
         /\ throttle' =
               [throttle EXCEPT
                  !.pc = "idle",
                  !.last_submission_monotonic =
                      IF sonar.execution_mode \in {"cloud", "ci"} THEN now
                      ELSE IF sonar.has_scanner /\ run = "returns" THEN now + dt
                      ELSE @]
    /\ UNCHANGED sideVars
    /\ UNCHANGED <<pc, scanVars, runVars, sonarVars, call, caller, history, trace,
                   wait>>

InitThrottle ==
    /\ pc = "idle"
    /\ args = [dry_run |-> FALSE, stop_on_error |-> FALSE]
    /\ pipeline = <<SonarName>>
    /\ repositories = <<1>>
    /\ i = 1
    /\ exists = {1}
    /\ already_exists = TRUE
    /\ summaries = <<>>
    /\ summary = NoSummary
    /\ fail_fast = FALSE
    /\ aidx = 1
    /\ results = <<>>
    /\ \E m \in {"local", "cloud", "ci"}, d \in 0..SubmissionDelay, sc \in BOOLEAN :
          sonar = [SonarDefault EXCEPT !.execution_mode = m,
                                       !.submission_delay_seconds = d,
                                       !.has_scanner = sc]
    /\ stateFile = [s \in Slugs |-> StateFileOf("missing", {})]
    /\ last_submission = NoInstanceSubmitted
    /\ call = NoCall
    /\ caller = "throttle"
    /\ history = <<>>
    /\ trace = <<>>
    /\ now = 0
    /\ wait = NoWait
    /\ throttle = NoThrottle
    /\ SideIdle

NextThrottle ==
    \/ Throttle
    \/ Dispatch

SpecThrottle == InitThrottle /\ [][NextThrottle]_vars

(* ----------------- WriteLanguageReportCsvAction.execute ---------------- *)
\* A text is a sequence of characters; a name or an extension that holds no
\* character special to the csv module stands as one character.
\* language_report_csv.py line 19
FIELDNAMES == <<"workspace", "repo_name", "repo_slug", "local_path", "extensions">>

FieldSet == {FIELDNAMES[k] : k \in DOMAIN FIELDNAMES}

\* the characters special to csv.writer and csv.reader (dialect excel)
Delimiter == ","
QuoteChar == "\""
LineTerminator == "\r\n"
LineFeed == "\n"
NewLines == {LineTerminator, LineFeed}

\* csv.DictReader's restval: Python None for a cell missing from a short row
RestVal == <<"<None>">>

NeedsQuoteNever(field) == FALSE

\* language_report_csv.py line 102: csv.writer quotes minimally, the fields
\* holding a delimiter, a quote or a character of the line terminator
NeedsQuote(field) ==
    \E k \in DOMAIN field : field[k] \in {Delimiter, QuoteChar} \cup NewLines

RECURSIVE DoubleQuotes(_)
\* language_report_csv.py line 105: csv.writer doubles the quotes of a field
DoubleQuotes(field) ==
    IF field = <<>> THEN <<>>
    ELSE (IF Head(field) = QuoteChar THEN <<QuoteChar, QuoteChar>>
          ELSE <<Head(field)>>) \o DoubleQuotes(Tail(field))

\* language_report_csv.py line 105: one cell as csv.writer writes it
WriteField(value) ==
    IF value = RestVal THEN <<>>
    ELSE IF NeedsQuote(value)
    THEN <<QuoteChar>> \o DoubleQuotes(value) \o <<QuoteChar>>
    ELSE value

RECURSIVE JoinFields(_)
JoinFields(cells) ==
    IF cells = <<>> THEN <<>>
    ELSE IF Len(cells) = 1 THEN WriteField(cells[1])
    ELSE WriteField(Head(cells)) \o <<Delimiter>> \o JoinFields(Tail(cells))

\* language_report_csv.py lines 103 and 105: writer.writerow
WriteRow(cells) == JoinFields(cells) \o <<LineTerminator>>

RECURSIVE WriteBody(_)
WriteBody(rows) ==
    IF rows = <<>> THEN <<>>
    ELSE WriteRow([k \in DOMAIN FIELDNAMES |-> Head(rows)[FIELDNAMES[k]]])
         \o WriteBody(Tail(rows))

\* language_report_csv.py lines 100-105: the bytes of the rewritten file
WriteRows(rows) ==
    WriteRow([k \in DOMAIN FIELDNAMES |-> <<FIELDNAMES[k]>>]) \o WriteBody(rows)

RECURSIVE ParseCsv(_, _, _, _, _)
\* language_report_csv.py lines 94-96: the records csv.reader yields; an
\* empty line yields the empty record
ParseCsv(bytes, state, field, record, records) ==
    IF bytes = <<>>
    THEN IF state = "START_RECORD" THEN records
         ELSE Append(records, Append(record, field))
    ELSE
    LET c == Head(bytes)
        rest == Tail(bytes)
        EndRecord == ParseCsv(rest, "START_RECORD", <<>>, <<>>,
                              Append(records, Append(record, field)))
        EndField == ParseCsv(rest, "START_FIELD", <<>>, Append(record, field), records)
        Add(next) == ParseCsv(rest, next, Append(field, c), record, records)
        Go(next) == ParseCsv(rest, next, field, record, records)
    IN CASE state = "START_RECORD" /\ c \in NewLines ->
                ParseCsv(rest, "START_RECORD", <<>>, <<>>, Append(records, <<>>))
         [] state = "START_FIELD" /\ c \in NewLines -> EndRecord
         [] state \in {"START_RECORD", "START_FIELD"} /\ c = QuoteChar ->
                Go("IN_QUOTED_FIELD")
         [] state \in {"START_RECORD", "START_FIELD"} /\ c = Delimiter -> EndField
         [] state \in {"START_RECORD", "START_FIELD"}
              /\ c \notin NewLines \cup {QuoteChar, Delimiter} -> Add("IN_FIELD")
         [] state = "IN_FIELD" /\ c \in NewLines -> EndRecord
         [] state = "IN_FIELD" /\ c = Delimiter -> EndField
         [] state = "IN_FIELD" /\ c \notin NewLines \cup {Delimiter} -> Add("IN_FIELD")
         [] state = "IN_QUOTED_FIELD" /\ c = QuoteChar -> Go("QUOTE_IN_QUOTED_FIELD")
         [] state = "IN_QUOTED_FIELD" /\ c /= QuoteChar -> Add("IN_QUOTED_FIELD")
         [] state = "QUOTE_IN_QUOTED_FIELD" /\ c = QuoteChar -> Add("IN_QUOTED_FIELD")
         [] state = "QUOTE_IN_QUOTED_FIELD" /\ c = Delimiter -> EndField
         [] state = "QUOTE_IN_QUOTED_FIELD" /\ c \in NewLines -> EndRecord
         [] state = "QUOTE_IN_QUOTED_FIELD"
              /\ c \notin NewLines \cup {QuoteChar, Delimiter} -> Add("IN_FIELD")

\* language_report_csv.py line 97 over csv.DictReader's row: the last
\* column of a name gives its cell, a short row gives None, a name absent
\* from the header gives ""
RowDict(header, row) ==
    [f \in FieldSet |->
        LET js == {j \in DOMAIN header : header[j] = <<f>>}
            last == CHOOSE j \in js : \A k \in js : k <= j
        IN IF js = {} THEN <<>>
           ELSE IF last <= Len(row) THEN row[last] ELSE RestVal]

\* language_report_csv.py lines 89-98
ReadRows(file) ==
    IF ~file.exists THEN <<>>
    ELSE LET parsed == ParseCsv(file.bytes, "START_RECORD", <<>>, <<>>, <<>>)
         IN IF parsed = <<>> THEN <<>>
            ELSE LET data == SelectSeq(Tail(parsed), LAMBDA r : r /= <<>>)
                 IN [k \in DOMAIN data |-> RowDict(parsed[1], data[k])]

NoIndex == 0

FindRowIndexWorkspaceOnly(rows, workspace, repo_slug) ==
    LET ks == {k \in DOMAIN rows : rows[k]["workspace"] = workspace}
    IN IF ks = {} THEN NoIndex ELSE CHOOSE k \in ks : \A j \in ks : k <= j

\* language_report_csv.py lines 107-113: the first row of the key
FindRowIndex(rows, workspace, repo_slug) ==
    LET ks == {k \in DOMAIN rows : /\ rows[k]["workspace"] = workspace
                                   /\ rows[k]["repo_slug"] = repo_slug}
    IN IF ks = {} THEN NoIndex ELSE CHOOSE k \in ks : \A j \in ks : k <= j

\* sorted() on the extensions of the model
ExtensionOrder == <<".js", ".py">>

RECURSIVE JoinWith(_, _)
JoinWith(texts, delimiter) ==
    IF texts = <<>> THEN <<>>
    ELSE IF Len(texts) = 1 THEN <<texts[1]>>
    ELSE <<Head(texts), delimiter>> \o JoinWith(Tail(texts), delimiter)

\* language_report_csv.py lines 86-87
SerializeExtensions(extensions, delimiter) ==
    JoinWith(SelectSeq(ExtensionOrder, LAMBDA e : e \in extensions), delimiter)

\* language_report_csv.py line 56
SkipWrite(existing_index, regenerate) ==
    existing_index /= NoIndex /\ ~regenerate

\* language_report_csv.py lines 43-49
TargetRow(ctx, delimiter) ==
    [f \in FieldSet |->
        CASE f = "workspace" -> ctx.workspace_id
          [] f = "repo_name" -> ctx.name
          [] f = "repo_slug" -> ctx.slug
          [] f = "local_path" -> ctx.local_path
          [] f = "extensions" -> SerializeExtensions(ctx.detected_extensions, delimiter)]

\* language_report_csv.py lines 39-84: the file after execute and the
\* metadata row_written of the result; the directory and the file are taken
\* readable and writable
CsvExecute(file, action, ctx) ==
    LET target_row == TargetRow(ctx, action.extensions_delimiter)
        existing_rows == ReadRows(file)
        existing_index == FindRowIndex(existing_rows, ctx.workspace_id, ctx.slug)
        rows == IF existing_index /= NoIndex
                THEN [existing_rows EXCEPT ![existing_index] = target_row]
                ELSE Append(existing_rows, target_row)
    IN IF SkipWrite(existing_index, action.regenerate)
       THEN [file |-> file, success |-> TRUE, row_written |-> FALSE]
       ELSE [file |-> [exists |-> TRUE, bytes |-> WriteRows(rows)],
             success |-> TRUE, row_written |-> TRUE]

\* the (workspace, slug) pairs of the repositories reported
CsvKeys ==
    {<<<<"w">>, <<"a">>>>,
     <<<<"w">>, <<"a", Delimiter, "b">>>>,
     <<<<"w", QuoteChar>>, <<"a", LineFeed>>>>}

ExtensionSets == {{}, {".js", ".py"}}

CsvContexts ==
    {[workspace_id |-> k[1], name |-> <<"n">>, slug |-> k[2],
      local_path |-> <<"/base/">> \o k[2], detected_extensions |-> e] :
        k \in CsvKeys, e \in ExtensionSets}

\* the report before the first call: none, an empty file, a report this
\* action wrote, and files written by hand (columns in another order with
\* bare line feeds; a short row)
CsvFiles ==
    {NoReport,
     [exists |-> TRUE, bytes |-> <<>>],
     [exists |-> TRUE, bytes |->
        WriteRows(<<TargetRow([workspace_id |-> <<"w">>, name |-> <<"n">>,
                               slug |-> <<"a">>, local_path |-> <<"/base/", "a">>,
                               detected_extensions |-> {".py"}], ";")>>)],
     [exists |-> TRUE, bytes |->
        <<"repo_slug", Delimiter, "workspace", LineFeed, "a", Delimiter, "w", LineFeed>>],
     [exists |-> TRUE, bytes |->
        <<"workspace", Delimiter, "repo_slug", LineTerminator, "w", LineTerminator>>]}

\* one call of execute on the shared report
WriteLanguageReportCsv ==
    /\ caller = "csv"
    /\ Len(csvCalls) < MaxCsvCalls
    /\ \E ctx \in CsvContexts :
         LET r == CsvExecute(report_csv, csvAction, ctx)
         IN /\ report_csv' = r.file
            /\ csvCalls' = Append(csvCalls,
                  [repo_context |-> ctx, before |-> report_csv,
                   success |-> r.success, row_written |-> r.row_written])
    /\ UNCHANGED <<coreVars, timeVars, csvAction, selectVars, keys, cli, git, pages, properties>>

InitCsv ==
    /\ pc = "idle"
    /\ args = [dry_run |-> FALSE, stop_on_error |-> FALSE]
    /\ pipeline = <<GenericName>>
    /\ repositories = <<1>>
    /\ i = 1
    /\ exists = {1}
    /\ already_exists = TRUE
    /\ summaries = <<>>
    /\ summary = NoSummary
    /\ fail_fast = FALSE
    /\ aidx = 1
    /\ results = <<>>
    /\ sonar = SonarDefault
    /\ stateFile = [s \in Slugs |-> StateFileOf("missing", {})]
    /\ last_submission = NoInstanceSubmitted
    /\ call = NoCall
    /\ caller = "csv"
    /\ history = <<>>
    /\ trace = <<>>
    /\ TimeIdle
    /\ report_csv \in CsvFiles
    /\ csvAction \in {[regenerate |-> g, extensions_delimiter |-> d] :
                         g \in BOOLEAN, d \in {";", Delimiter}}
    /\ csvCalls = <<>>
    /\ SelectIdle
    /\ keys = NoKeys /\ cli = NoCli /\ git = NoGit /\ pages = NoPages /\ properties = NoProperties

NextCsv == WriteLanguageReportCsv

SpecCsv == InitCsv /\ [][NextCsv]_vars

(* ------------ the selection of GitWorkspaceScanner.execute alone -------- *)
\* the scanner and the Sonar action at rest while another area is explored
CoreIdle ==
    /\ pc = "idle"
    /\ args = [dry_run |-> FALSE, stop_on_error |-> FALSE]
    /\ pipeline = <<GenericName>>
    /\ repositories = <<1>>
    /\ i = 1
    /\ exists = {1}
    /\ already_exists = TRUE
    /\ summaries = <<>>
    /\ summary = NoSummary
    /\ fail_fast = FALSE
    /\ aidx = 1
    /\ results = <<>>
    /\ sonar = SonarDefault
    /\ stateFile = [s \in Slugs |-> StateFileOf("missing", {})]
    /\ last_submission = NoInstanceSubmitted
    /\ call = NoCall
    /\ history = <<>>
    /\ trace = <<>>

\* the provider returns distinct slugs, here <<1, .., n>>
Listings == {[k \in 1..n |-> k] : n \in 0..MaxListed}

Seeds == {7}

RECURSIVE Factorial(_)
Factorial(n) == IF n <= 1 THEN 1 ELSE n * Factorial(n - 1)

\* what a generator yields to sample on a population of n entries: the
\* values of its calls of randbelow(n), randbelow(n - 1), .., as the digits
\* of one number
Streams(n) == 0..(Factorial(n) - 1)

RngUnseeded(random_seed, seeded, fresh) == fresh

\* git_workspace_scanner.py line 105: random.Random(random_seed) is a
\* function of the seed; without a seed it is seeded by the system
Rng(random_seed, seeded, fresh) ==
    IF random_seed = NoSeed THEN fresh ELSE seeded

RECURSIVE SamplePool(_, _, _)
\* git_workspace_scanner.py line 106: random.Random.sample on a short list:
\* the next result is pool[j] with j = randbelow(len(pool)), then the last
\* entry of the pool moves to position j
SamplePool(pool, k, stream) ==
    IF k = 0 THEN <<>>
    ELSE LET n == Len(pool)
             j == (stream % n) + 1
             rest == [q \in 1..(n - 1) |-> IF q = j THEN pool[n] ELSE pool[q]]
         IN <<pool[j]>> \o SamplePool(rest, k - 1, stream \div n)

\* git_workspace_scanner.py lines 103-108 with the generator given
LimitReposWith(repos, max_repos, repo_selection, stream) ==
    IF max_repos /= NoLimit /\ Len(repos) > max_repos
    THEN IF repo_selection = "random"
         THEN SamplePool(repos, max_repos, stream)
         ELSE SubSeq(repos, 1, max_repos)
    ELSE repos

\* the list the limit is applied to
Filtered == FilterBySlug(listing.provider, listing.only_repo_slug)

\* git_workspace_scanner.py lines 85-108: one run lists and selects
SelectRun ==
    /\ caller = "select"
    /\ Len(selectRuns) < MaxSelectRuns
    /\ \E fresh \in Streams(Len(Filtered)) :
         selectRuns' = Append(selectRuns,
            LimitReposWith(Filtered, listing.max_repos, listing.repo_selection,
                           Rng(listing.random_seed, rng, fresh)))
    /\ UNCHANGED <<coreVars, timeVars, csvVars, listing, rng, keys, cli, git, pages, properties>>

InitSelect ==
    /\ CoreIdle
    /\ caller = "select"
    /\ TimeIdle
    /\ CsvIdle
    /\ keys = NoKeys /\ cli = NoCli /\ git = NoGit /\ pages = NoPages /\ properties = NoProperties
    /\ listing \in {[provider |-> l, only_repo_slug |-> o, max_repos |-> m,
                     repo_selection |-> s, random_seed |-> d] :
                       l \in Listings, o \in {NoSlug, 1}, m \in {NoLimit} \cup (1..MaxListed),
                       s \in {"first", "random"}, d \in {NoSeed} \cup Seeds}
    /\ rng \in Streams(Len(Filtered))
    /\ selectRuns = <<>>

NextSelect == SelectRun

SpecSelect == InitSelect /\ [][NextSelect]_vars

(* ----------------------- project keys, seen alone ---------------------- *)
\* characters of a workspace id or of a slug: ASCII letters and digits, the
\* four ASCII signs kept, two ASCII signs replaced, and the letter U+00E9
\* and the digit U+0663, which are not ASCII
AsciiAlnum == {"a", "Z", "7"}
KeptSigns == {"_", "-", ".", ":"}
KeyChars == {"a", "7", ":", "/", " ", "U+00E9", "U+0663"}

\* str.isalnum of sonar_scan.py line 656 and sonar_properties.py line 95:
\* true of every letter and digit of Unicode
IsAlnum(char) == char \in AsciiAlnum \cup {"U+00E9", "U+0663"}

\* mutation: only ASCII letters and digits are kept
SanitizeKeyAscii(value) ==
    [k \in DOMAIN value |->
        IF value[k] \in AsciiAlnum \cup KeptSigns THEN value[k] ELSE "_"]

\* sonar_properties.py lines 91-99
SanitizeKey(value) ==
    [k \in DOMAIN value |->
        IF IsAlnum(value[k]) \/ value[k] \in KeptSigns THEN value[k] ELSE "_"]

\* sonar_scan.py lines 652-660, on the characters of the identifiers
ProjectKeyText(workspace_id, slug) ==
    LET value == workspace_id \o <<"_">> \o slug
    IN [k \in DOMAIN value |->
          IF IsAlnum(value[k]) \/ value[k] \in KeptSigns THEN value[k] ELSE "_"]

KeyTexts == UNION {[1..n -> KeyChars] : n \in 1..MaxKeyChars}

\* RunSonarScannerAction computes the key of the repository
ScanProjectKey ==
    /\ caller = "keys"
    /\ "scan" \notin keys.done
    /\ keys' = [keys EXCEPT !.project_key = ProjectKeyText(keys.workspace_id, keys.slug),
                            !.done = @ \cup {"scan"}]
    /\ UNCHANGED <<coreVars, timeVars, csvVars, selectVars, cli, git, pages, properties>>

\* GenerateSonarPropertiesAction computes the key of the repository
PropertiesProjectKey ==
    /\ caller = "keys"
    /\ "properties" \notin keys.done
    /\ keys' = [keys EXCEPT
                  !.sanitized = SanitizeKey(keys.workspace_id \o <<"_">> \o keys.slug),
                  !.done = @ \cup {"properties"}]
    /\ UNCHANGED <<coreVars, timeVars, csvVars, selectVars, cli, git, pages, properties>>

InitKeys ==
    /\ CoreIdle
    /\ caller = "keys"
    /\ TimeIdle
    /\ CsvIdle
    /\ SelectIdle
    /\ cli = NoCli /\ git = NoGit /\ pages = NoPages /\ properties = NoProperties
    /\ \E w \in KeyTexts, s \in KeyTexts :
          keys = [NoKeys EXCEPT !.workspace_id = w, !.slug = s]

NextKeys ==
    \/ ScanProjectKey
    \/ PropertiesProjectKey

SpecKeys == InitKeys /\ [][NextKeys]_vars

(* ------------------------------- cli.main ------------------------------ *)
\* config.py line 8
SUPPORTED_PROVIDERS == {"bitbucket", "github", "gitlab"}

\* config.py lines 28-73: the first ValueError load_config raises, or "ok";
\* empty values are None after _normalize_empty
LoadConfig(raw) ==
    IF raw.provider = None THEN "missing_provider"
    ELSE IF raw.provider \notin SUPPORTED_PROVIDERS THEN "unsupported_provider"
    ELSE IF raw.workspace = None THEN "missing_workspace"
    ELSE IF raw.base_dir = None THEN "missing_base_dir"
    ELSE IF raw.max_repos = "x" THEN "max_repos_not_integer"
    ELSE IF raw.max_repos = "0" THEN "max_repos_not_positive"
    ELSE "ok"

\* main.py lines 235-241
ParseBool(value) ==
    IF value \in {"1", "true", "yes", "on"} THEN "true"
    ELSE IF value \in {"0", "false", "no", "off"} THEN "false"
    ELSE "RuntimeError"

\* ports.py lines 43-59: the abstract methods of FileSystemPort
FileSystemPortMethods == {"ensure_directory", "path_exists", "list_files_recursive"}

\* local_filesystem.py lines 8-13: the methods LocalFileSystemAdapter defines
LocalFileSystemAdapterMethods == {"ensure_directory", "list_files_recursive"}

\* a subclass of an ABC is instantiated only with every abstract method
\* overridden; otherwise the call raises TypeError
Instantiable(methods, abstract) == abstract \subseteq methods

\* main.py lines 137-231: the pipeline is built, or RuntimeError
BuildActionPipeline(git_actions) ==
    IF git_actions = "bogus" THEN "RuntimeError" ELSE "ok"

\* main.py lines 117-134: the arguments of GitWorkspaceScanner are
\* evaluated in order
BuildScanner(provider, git_actions) ==
    IF provider /= "bitbucket" THEN "RuntimeError"
    ELSE IF ~Instantiable(LocalFileSystemAdapterMethods, FileSystemPortMethods)
    THEN "TypeError"
    ELSE BuildActionPipeline(git_actions)

\* parser.error prints the usage and exits with status 2
ParserError(c) == [c EXCEPT !.pc = "done", !.exit_code = 2]

\* an exception that leaves main ends the process with status 1
Uncaught(c, error) == [c EXCEPT !.pc = "done", !.exit_code = 1, !.raised = error]

\* main.py lines 74-79: the arguments are parsed and the configuration loaded
MainParse ==
    /\ caller = "cli"
    /\ cli.pc = "start"
    /\ cli' = IF ~cli.argv_accepted THEN ParserError(cli)
              ELSE IF LoadConfig(cli) /= "ok" THEN ParserError(cli)
              ELSE [cli EXCEPT !.pc = "log"]
    /\ UNCHANGED <<coreVars, timeVars, csvVars, selectVars, keys, git, pages, properties>>

\* main.py lines 81-95: the configuration is logged, GIT_STOP_ON_ERROR parsed
MainLog ==
    /\ caller = "cli"
    /\ cli.pc = "log"
    /\ cli' = IF ParseBool(cli.env_GIT_STOP_ON_ERROR) = "RuntimeError"
              THEN Uncaught(cli, "RuntimeError")
              ELSE [cli EXCEPT !.pc = "run"]
    /\ UNCHANGED <<coreVars, timeVars, csvVars, selectVars, keys, git, pages, properties>>

\* main.py lines 97-114: the scanner is built and executed, the summary
\* printed
MainRun ==
    /\ caller = "cli"
    /\ cli.pc = "run"
    /\ LET built == BuildScanner(cli.provider, cli.env_GIT_ACTIONS)
       IN IF built = "RuntimeError" THEN cli' = ParserError(cli)
          ELSE IF built = "TypeError" THEN cli' = Uncaught(cli, "TypeError")
          ELSE \E execute \in {"RuntimeError", 0, 1} :
                  cli' = IF execute = "RuntimeError" THEN ParserError(cli)
                         ELSE [cli EXCEPT !.pc = "done", !.exit_code = 0,
                                          !.scanner_built = TRUE,
                                          !.summary_returned = TRUE,
                                          !.failed_repositories = execute]
    /\ UNCHANGED <<coreVars, timeVars, csvVars, selectVars, keys, git, pages, properties>>

InitCli ==
    /\ CoreIdle
    /\ caller = "cli"
    /\ TimeIdle
    /\ CsvIdle
    /\ SelectIdle
    /\ keys = NoKeys /\ git = NoGit /\ pages = NoPages /\ properties = NoProperties
    /\ \E a \in BOOLEAN, p \in {None, "bitbucket", "github", "svn"},
          w \in {None, "ws"}, b \in {None, "/base"}, m \in {None, "2", "0", "x"},
          s \in {"false", "yes", "maybe"}, g \in {"", "detect-languages", "bogus"} :
       cli = [NoCli EXCEPT !.pc = "start", !.argv_accepted = a, !.provider = p,
                           !.workspace = w, !.base_dir = b, !.max_repos = m,
                           !.env_GIT_STOP_ON_ERROR = s, !.env_GIT_ACTIONS = g]

NextCli ==
    \/ MainParse
    \/ MainLog
    \/ MainRun

SpecCli == InitCli /\ [][NextCli]_vars

(* --------------------------- ShellGitClientAdapter --------------------- *)
\* the branch names of the working copies and of origin
Branches == {"main", "master", "dev"}

\* what rev-parse --abbrev-ref HEAD prints on a detached head
Detached == "HEAD"

\* one git command line: its words and the branch it names ("" for none)
Cmd(words, branch) == <<words, branch>>

CloneCmd == Cmd("clone", "")
FetchCmd == Cmd("fetch --prune origin", "")
SetHeadCmd == Cmd("remote set-head origin -a", "")
CurrentBranchCmd == Cmd("rev-parse --abbrev-ref HEAD", "")
UpstreamCmd == Cmd("rev-parse --abbrev-ref --symbolic-full-name @{u}", "")
DefaultBranchCmd == Cmd("symbolic-ref --short refs/remotes/origin/HEAD", "")
RemoteRefCmd(branch) == Cmd("show-ref --verify refs/remotes/origin/", branch)
LocalRefCmd(branch) == Cmd("show-ref --verify refs/heads/", branch)
CheckoutCmd(branch) == Cmd("checkout", branch)
CheckoutTrackCmd(branch) == Cmd("checkout -b --track origin/", branch)
SetUpstreamCmd(branch) == Cmd("branch --set-upstream-to origin/", branch)
PullCmd == Cmd("pull --ff-only", "")
PullFromCmd(branch) == Cmd("pull --ff-only origin", branch)

\* shell_git_client.py lines 108-113
HasUpstream(g) == g.head \in g.upstream

\* shell_git_client.py lines 115-120: None when rev-parse fails
GetCurrentBranch(g) == g.head

\* shell_git_client.py lines 122-129: None when origin/HEAD is not set
GetDefaultRemoteBranch(g) == g.origin_head

\* shell_git_client.py lines 142-144
RemoteBranchExists(g, branch) == branch \in g.remote

\* shell_git_client.py lines 146-148
LocalBranchExists(g, branch) == branch \in g.local

\* a branch name that rev-parse gave and that is not the detached head
Named(branch) == branch /= None /\ branch /= Detached

\* shell_git_client.py lines 151-157
CandidatesMainFirst(default_branch, current_branch) ==
    (IF default_branch /= None THEN <<default_branch>> ELSE <<>>)
    \o <<"main", "master">>
    \o (IF Named(current_branch) THEN <<current_branch>> ELSE <<>>)

Candidates(default_branch, current_branch) ==
    (IF default_branch /= None THEN <<default_branch>> ELSE <<>>)
    \o <<"master", "main">>
    \o (IF Named(current_branch) THEN <<current_branch>> ELSE <<>>)

\* shell_git_client.py lines 159-166: the first candidate found on origin
\* and the show-ref commands run on the way; a candidate seen before is
\* not asked again
RECURSIVE FirstOnOrigin(_, _, _, _)
FirstOnOrigin(g, candidates, seen, asked) ==
    IF candidates = <<>> THEN [branch |-> None, asked |-> asked]
    ELSE LET branch == Head(candidates)
         IN IF branch \in seen
            THEN FirstOnOrigin(g, Tail(candidates), seen, asked)
            ELSE IF RemoteBranchExists(g, branch)
            THEN [branch |-> branch, asked |-> Append(asked, RemoteRefCmd(branch))]
            ELSE FirstOnOrigin(g, Tail(candidates), seen \cup {branch},
                               Append(asked, RemoteRefCmd(branch)))

\* mutation: the first candidate is taken whether or not origin has it
ResolvePrimaryBranchUnverified(g, current_branch) ==
    LET first == Head(Candidates(GetDefaultRemoteBranch(g), current_branch))
    IN [branch |-> first, asked |-> <<DefaultBranchCmd, RemoteRefCmd(first)>>]

\* shell_git_client.py lines 150-166
ResolvePrimaryBranch(g, current_branch) ==
    LET found == FirstOnOrigin(g, Candidates(GetDefaultRemoteBranch(g), current_branch),
                               {}, <<>>)
    IN [branch |-> found.branch, asked |-> <<DefaultBranchCmd>> \o found.asked]

\* shell_git_client.py lines 78-101: the branch of the fallback pull (None
\* when the pull raises) and the queries run to find it
FallbackPullNeverFails(g, current_branch) ==
    LET default_branch == GetDefaultRemoteBranch(g)
        q0 == <<DefaultBranchCmd>>
        q1 == IF Named(current_branch) THEN Append(q0, RemoteRefCmd(current_branch)) ELSE q0
    IN IF Named(current_branch) /\ RemoteBranchExists(g, current_branch)
       THEN [branch |-> current_branch, asked |-> q1]
       ELSE IF default_branch /= None
       THEN [branch |-> default_branch, asked |-> q1]
       ELSE IF RemoteBranchExists(g, "main")
       THEN [branch |-> "main", asked |-> Append(q1, RemoteRefCmd("main"))]
       ELSE IF RemoteBranchExists(g, "master")
       THEN [branch |-> "master",
             asked |-> q1 \o <<RemoteRefCmd("main"), RemoteRefCmd("master")>>]
       ELSE [branch |-> "master",
             asked |-> q1 \o <<RemoteRefCmd("main"), RemoteRefCmd("master")>>]

FallbackPull(g, current_branch) ==
    LET default_branch == GetDefaultRemoteBranch(g)
        q0 == <<DefaultBranchCmd>>
        q1 == IF Named(current_branch) THEN Append(q0, RemoteRefCmd(current_branch)) ELSE q0
    IN IF Named(current_branch) /\ RemoteBranchExists(g, current_branch)
       THEN [branch |-> current_branch, asked |-> q1]
       ELSE IF default_branch /= None
       THEN [branch |-> default_branch, asked |-> q1]
       ELSE IF RemoteBranchExists(g, "main")
       THEN [branch |-> "main", asked |-> Append(q1, RemoteRefCmd("main"))]
       ELSE IF RemoteBranchExists(g, "master")
       THEN [branch |-> "master",
             asked |-> q1 \o <<RemoteRefCmd("main"), RemoteRefCmd("master")>>]
       ELSE [branch |-> None,
             asked |-> q1 \o <<RemoteRefCmd("main"), RemoteRefCmd("master")>>]

\* shell_git_client.py lines 179-234: a command that raises RuntimeError ends
\* the operation
GitRaise(g, run) ==
    [g EXCEPT !.pc = "done", !.error = TRUE, !.commands = @ \o run]

\* shell_git_client.py lines 190-197: the first n of the queries answer and
\* the next one is not found or times out
QueryRaises(g, queries, n) == GitRaise(g, SubSeq(queries, 1, n + 1))

\* shell_git_client.py lines 17-38
CloneAlways(g, outcome, origin, default) ==
    IF outcome = "ok"
    THEN [g EXCEPT !.pc = "done", !.op = "clone", !.parent = TRUE,
                   !.path = "repository", !.head = default, !.local = {default},
                   !.remote = origin, !.origin_head = default,
                   !.upstream = {default}, !.commands = <<CloneCmd>>]
    ELSE [g EXCEPT !.pc = "done", !.op = "clone", !.parent = TRUE, !.error = TRUE,
                   !.commands = <<CloneCmd>>]

CloneInto(g, outcome, origin, default) ==
    IF g.path /= "absent" THEN [g EXCEPT !.pc = "done", !.op = "clone"]
    ELSE IF outcome = "ok"
    THEN [g EXCEPT !.pc = "done", !.op = "clone", !.parent = TRUE,
                   !.path = "repository", !.head = default, !.local = {default},
                   !.remote = origin, !.origin_head = default,
                   !.upstream = {default}, !.commands = <<CloneCmd>>]
    ELSE [g EXCEPT !.pc = "done", !.op = "clone", !.parent = TRUE, !.error = TRUE,
                   !.commands = <<CloneCmd>>]

Clone ==
    /\ caller = "git"
    /\ git.pc = "ready"
    /\ \E outcome \in {"ok", "failed"}, origin \in SUBSET Branches \ {{}} :
          \E default \in origin : git' = CloneInto(git, outcome, origin, default)
    /\ UNCHANGED <<coreVars, timeVars, csvVars, selectVars, keys, cli, pages, properties>>

\* shell_git_client.py lines 40-51
PullStart ==
    /\ caller = "git"
    /\ git.pc = "ready"
    /\ git' = IF git.path /= "repository"
              THEN [git EXCEPT !.pc = "done", !.op = "pull", !.error = TRUE]
              ELSE [git EXCEPT !.pc = "fetch", !.op = "pull"]
    /\ UNCHANGED <<coreVars, timeVars, csvVars, selectVars, keys, cli, pages, properties>>

\* shell_git_client.py line 53
PullFetch ==
    /\ caller = "git"
    /\ git.pc = "fetch"
    /\ \E outcome \in {"ok", "failed"}, origin \in SUBSET Branches :
          git' = IF outcome = "ok"
                 THEN [git EXCEPT !.pc = "refresh", !.remote = origin,
                                  !.commands = Append(@, FetchCmd)]
                 ELSE GitRaise(git, <<FetchCmd>>)
    /\ UNCHANGED <<coreVars, timeVars, csvVars, selectVars, keys, cli, pages, properties>>

\* shell_git_client.py lines 54, 131-140
RefreshRemoteHead ==
    /\ caller = "git"
    /\ git.pc = "refresh"
    /\ \/ \E default \in git.remote :
             git' = [git EXCEPT !.pc = "current", !.origin_head = default,
                                !.refreshed = "yes",
                                !.commands = Append(@, SetHeadCmd)]
       \/ git' = [git EXCEPT !.pc = "current", !.refreshed = "no",
                             !.commands = Append(@, SetHeadCmd)]
       \/ git' = QueryRaises(git, <<SetHeadCmd>>, 0)
    /\ UNCHANGED <<coreVars, timeVars, csvVars, selectVars, keys, cli, pages, properties>>

\* shell_git_client.py lines 56-57
PullResolve ==
    /\ caller = "git"
    /\ git.pc = "current"
    /\ LET current_branch == GetCurrentBranch(git)
           primary == ResolvePrimaryBranch(git, current_branch)
           queries == <<CurrentBranchCmd>> \o primary.asked
       IN \E n \in 0..Len(queries) :
             git' = IF n < Len(queries) THEN QueryRaises(git, queries, n)
                    ELSE [git EXCEPT !.pc = "checkout",
                                     !.current_branch = current_branch,
                                     !.primary_branch = primary.branch,
                                     !.commands = @ \o queries]
    /\ UNCHANGED <<coreVars, timeVars, csvVars, selectVars, keys, cli, pages, properties>>

\* shell_git_client.py lines 59-70, 168-172
PullCheckout ==
    /\ caller = "git"
    /\ git.pc = "checkout"
    /\ LET branch == git.primary_branch
       IN IF branch /= None /\ git.current_branch /= branch
          THEN \/ git' = QueryRaises(git, <<LocalRefCmd(branch)>>, 0)
               \/ \E outcome \in {"ok", "failed"} :
                     LET tracked == ~LocalBranchExists(git, branch)
                         run == <<LocalRefCmd(branch),
                                  IF tracked THEN CheckoutTrackCmd(branch)
                                  ELSE CheckoutCmd(branch)>>
                     IN git' = IF outcome = "failed" THEN GitRaise(git, run)
                               ELSE [git EXCEPT !.pc = "upstream", !.head = branch,
                                        !.current_branch = branch,
                                        !.local = @ \cup {branch},
                                        !.upstream = IF tracked THEN @ \cup {branch}
                                                     ELSE @,
                                        !.commands = @ \o run]
          ELSE git' = [git EXCEPT !.pc = "upstream"]
    /\ UNCHANGED <<coreVars, timeVars, csvVars, selectVars, keys, cli, pages, properties>>

\* shell_git_client.py lines 72-73, 174-177
PullSetUpstream ==
    /\ caller = "git"
    /\ git.pc = "upstream"
    /\ LET branch == git.primary_branch
           queries == IF branch = None THEN <<>>
                      ELSE IF HasUpstream(git) THEN <<UpstreamCmd>>
                      ELSE <<UpstreamCmd, RemoteRefCmd(branch)>>
           sets == branch /= None /\ ~HasUpstream(git) /\ RemoteBranchExists(git, branch)
       IN \/ \E n \in 0..(Len(queries) - 1) : git' = QueryRaises(git, queries, n)
          \/ \E outcome \in {"ok", "failed"} :
                git' = IF ~sets
                       THEN [git EXCEPT !.pc = "pull", !.commands = @ \o queries]
                       ELSE IF outcome = "failed"
                       THEN GitRaise(git, Append(queries, SetUpstreamCmd(branch)))
                       ELSE [git EXCEPT !.pc = "pull",
                                !.upstream = @ \cup {branch},
                                !.commands = @ \o Append(queries, SetUpstreamCmd(branch))]
    /\ UNCHANGED <<coreVars, timeVars, csvVars, selectVars, keys, cli, pages, properties>>

\* shell_git_client.py lines 75-106
PullCommand ==
    /\ caller = "git"
    /\ git.pc = "pull"
    /\ LET fallback == FallbackPull(git, git.current_branch)
           queries == IF HasUpstream(git) THEN <<UpstreamCmd>>
                      ELSE <<UpstreamCmd>> \o fallback.asked
           command == IF HasUpstream(git) THEN <<PullCmd>>
                      ELSE IF fallback.branch /= None
                      THEN <<PullFromCmd(fallback.branch)>>
                      ELSE <<>>
       IN \/ \E n \in 0..(Len(queries) - 1) : git' = QueryRaises(git, queries, n)
          \/ \E outcome \in {"ok", "failed"} :
                git' = IF command = <<>> \/ outcome = "failed"
                       THEN GitRaise(git, queries \o command)
                       ELSE [git EXCEPT !.pc = "done",
                                        !.commands = @ \o queries \o command]
    /\ UNCHANGED <<coreVars, timeVars, csvVars, selectVars, keys, cli, pages, properties>>

InitGit ==
    /\ CoreIdle
    /\ caller = "git"
    /\ TimeIdle
    /\ CsvIdle
    /\ SelectIdle
    /\ keys = NoKeys /\ cli = NoCli /\ pages = NoPages /\ properties = NoProperties
    /\ \/ \E parent \in BOOLEAN :
             git = [NoGit EXCEPT !.pc = "ready", !.path = "absent", !.parent = parent]
       \/ git = [NoGit EXCEPT !.pc = "ready", !.path = "directory", !.parent = TRUE]
       \/ \E head \in Branches \cup {Detached, None}, local \in SUBSET Branches,
             remote \in {{}, Branches}, origin_head \in Branches \cup {None} :
             \E upstream \in SUBSET local :
                /\ head \in Branches => head \in local
                /\ git = [NoGit EXCEPT !.pc = "ready", !.path = "repository",
                                       !.parent = TRUE, !.head = head,
                                       !.local = local, !.remote = remote,
                                       !.origin_head = origin_head,
                                       !.upstream = upstream]

NextGit ==
    \/ Clone
    \/ PullStart
    \/ PullFetch
    \/ RefreshRemoteHead
    \/ PullResolve
    \/ PullCheckout
    \/ PullSetUpstream
    \/ PullCommand

SpecGit == InitGit /\ [][NextGit]_vars

(* -------------------- BitbucketCloudGitProviderAdapter ----------------- *)
\* URLs are numbered: FirstUrl is {base}/repositories/{workspace}, 0 is the
\* empty string, and the next link of the page at URL u is u + 1
FirstUrl == 1

NoUrl == 0

\* the JSON values of one entry of `values`: a non-object, or an object with
\* its slug, name, ssh clone link, full_name and workspace slug ("" = absent)
Items ==
    { [object |-> FALSE, slug |-> "", name |-> "", ssh |-> "", full_name |-> "",
       workspace |-> ""],
      [object |-> TRUE, slug |-> "r1", name |-> "Repo 1", ssh |-> "git@host:ws/r1.git",
       full_name |-> "", workspace |-> ""],
      [object |-> TRUE, slug |-> "r2", name |-> " ", ssh |-> "", full_name |-> "ws/r2",
       workspace |-> ""],
      [object |-> TRUE, slug |-> "r1", name |-> "", ssh |-> "", full_name |-> "r1",
       workspace |-> "ws"],
      [object |-> TRUE, slug |-> " ", name |-> "", ssh |-> "git@host:ws/r1.git",
       full_name |-> "", workspace |-> ""],
      [object |-> TRUE, slug |-> "r2", name |-> "", ssh |-> "", full_name |-> "",
       workspace |-> ""] }

\* the `values` of a payload: absent, not a list, or a list of entries
NoValues == [type |-> "absent", items |-> <<>>]

NotAList == [type |-> "other", items |-> <<>>]

ValueLists ==
    {[type |-> "list", items |-> l] : l \in UNION {[1..n -> Items] : n \in 0..MaxItems}}

\* the `next` of a payload: absent, a number, or a string (0 for "")
NextValues(url, more) ==
    {[type |-> "absent", url |-> NoUrl], [type |-> "number", url |-> url + 1],
     [type |-> "str", url |-> NoUrl]}
    \cup (IF more THEN {[type |-> "str", url |-> url + 1]} ELSE {})

\* the answers to the request of one URL: an error, or a JSON object
Responses(url, more) ==
    { [status |-> s, values |-> NoValues, next |-> [type |-> "absent", url |-> NoUrl]] :
        s \in {"HTTPError", "not an object"} }
    \cup { [status |-> "ok", values |-> v, next |-> x] :
             v \in ValueLists \cup {NoValues, NotAList}, x \in NextValues(url, more) }

\* str.strip() on the texts of the entries
Strip(text) == IF text = " " THEN "" ELSE text

\* bitbucket_cloud.py lines 113-131 and 133-145: the clone URL, <<>> for None
CloneUrl(item, slug) ==
    IF Strip(item.ssh) /= "" THEN <<Strip(item.ssh)>>
    ELSE IF item.full_name \in {"ws/r2"}    \* the full names holding "/"
    THEN <<"git@bitbucket.org:", item.full_name, ".git">>
    ELSE IF Strip(item.workspace) /= ""
    THEN <<"git@bitbucket.org:", Strip(item.workspace), "/", slug, ".git">>
    ELSE <<>>

\* bitbucket_cloud.py lines 94-111: the repository of an entry, in a list
\* that is empty when the entry maps to None
MapRepository(item) ==
    IF Strip(item.slug) = "" \/ CloneUrl(item, Strip(item.slug)) = <<>> THEN <<>>
    ELSE <<[name |-> IF Strip(item.name) /= "" THEN Strip(item.name) ELSE Strip(item.slug),
            slug |-> Strip(item.slug),
            clone_url |-> CloneUrl(item, Strip(item.slug))]>>

\* bitbucket_cloud.py lines 38, 43-48: the repositories one page adds (the
\* default of an absent `values` is the empty list)
RECURSIVE PageRepositories(_)
PageRepositories(items) ==
    IF items = <<>> THEN <<>>
    ELSE IF ~Head(items).object THEN PageRepositories(Tail(items))
    ELSE MapRepository(Head(items)) \o PageRepositories(Tail(items))

\* bitbucket_cloud.py lines 50-51
NextUrlAnyType(next_value) == next_value.url

NextUrl(next_value) ==
    IF next_value.type = "str" /\ next_value.url /= NoUrl THEN next_value.url
    ELSE NoUrl

\* bitbucket_cloud.py lines 32-35
ListRepositories ==
    /\ caller = "pages"
    /\ pages.pc = "ready"
    /\ pages' = [pages EXCEPT !.pc = "loop", !.next_url = FirstUrl,
                              !.repositories = <<>>]
    /\ UNCHANGED <<coreVars, timeVars, csvVars, selectVars, keys, cli, git, properties>>

\* bitbucket_cloud.py lines 37-51, 58-78: one turn of the loop
RequestPage ==
    /\ caller = "pages"
    /\ pages.pc = "loop"
    /\ pages.next_url /= NoUrl
    /\ \E payload \in Responses(pages.next_url, pages.next_url < MaxPages) :
          pages' = IF payload.status /= "ok" \/ payload.values = NotAList
                   THEN [pages EXCEPT !.pc = "done", !.raised = TRUE,
                                      !.requested = Append(@, pages.next_url),
                                      !.payloads = Append(@, payload)]
                   ELSE [pages EXCEPT !.requested = Append(@, pages.next_url),
                                      !.payloads = Append(@, payload),
                                      !.repositories = @ \o PageRepositories(payload.values.items),
                                      !.next_url = NextUrl(payload.next)]
    /\ UNCHANGED <<coreVars, timeVars, csvVars, selectVars, keys, cli, git, properties>>

\* bitbucket_cloud.py lines 37, 53
ReturnRepositories ==
    /\ caller = "pages"
    /\ pages.pc = "loop"
    /\ pages.next_url = NoUrl
    /\ pages' = [pages EXCEPT !.pc = "done", !.returned = TRUE,
                              !.result = pages.repositories]
    /\ UNCHANGED <<coreVars, timeVars, csvVars, selectVars, keys, cli, git, properties>>

InitPages ==
    /\ CoreIdle
    /\ caller = "pages"
    /\ TimeIdle
    /\ CsvIdle
    /\ SelectIdle
    /\ keys = NoKeys /\ cli = NoCli /\ git = NoGit
    /\ pages = [NoPages EXCEPT !.pc = "ready"]
    /\ properties = NoProperties

NextPages ==
    \/ ListRepositories
    \/ RequestPage
    \/ ReturnRepositories

SpecPages == InitPages /\ [][NextPages]_vars

(* ------------------- sonar-project.properties (rules) ------------------ *)
\* rules/sonar_properties.py: GenerateSonarPropertiesAction. The file is a
\* sequence of lines; a file found before the call holds one line of its own.
Extensions == {".java", ".JAVA", ".ts", ".js", ".py", ".go"}
ExistingContent == <<"sonar.projectKey=kept">>
JavaBinariesLine == "sonar.java.binaries=target/classes"

\* str.lower() on the extensions of the model
Lower(ext) == IF ext = ".JAVA" THEN ".java" ELSE ext

\* _select_language: the first of .java, .ts, .js, .py found among the
\* lowercased extensions names the template
SelectLanguageJsFirst(detected_extensions) ==
    LET normalized == {Lower(ext) : ext \in detected_extensions}
    IN  IF ".java" \in normalized THEN "java"
        ELSE IF ".js" \in normalized THEN "javascript"
        ELSE IF ".ts" \in normalized THEN "typescript"
        ELSE IF ".py" \in normalized THEN "python"
        ELSE "generic"
SelectLanguage(detected_extensions) ==
    LET normalized == {Lower(ext) : ext \in detected_extensions}
    IN  IF ".java" \in normalized THEN "java"
        ELSE IF ".ts" \in normalized THEN "typescript"
        ELSE IF ".js" \in normalized THEN "javascript"
        ELSE IF ".py" \in normalized THEN "python"
        ELSE "generic"

\* _build_content: four lines, and the binaries line for the java template
BuildContent(language) ==
    <<"sonar.projectKey=key", "sonar.projectName=name", "sonar.sources=.",
      "sonar.sourceEncoding=UTF-8">>
    \o (IF language = "java" THEN <<JavaBinariesLine>> ELSE <<>>)

\* execute: an existing file is kept unless overwrite; otherwise the content
\* is written, and an OSError of write_text leaves the call
GenerateSonarProperties ==
    /\ properties.pc = "ready"
    /\ IF properties.exists /\ ~properties.overwrite
       THEN properties' = [properties EXCEPT !.pc = "done", !.success = TRUE,
                               !.written = FALSE, !.reason = "exists"]
       ELSE LET language == SelectLanguage(properties.detected_extensions)
            IN  \E write \in {"ok", "OSError"} :
                  IF write = "ok"
                  THEN properties' =
                         [properties EXCEPT !.pc = "done", !.exists = TRUE,
                              !.content = BuildContent(language),
                              !.success = TRUE, !.written = TRUE,
                              !.language_template = language]
                  ELSE properties' =
                         [properties EXCEPT !.pc = "done", !.raised = TRUE]
    /\ UNCHANGED <<coreVars, timeVars, csvVars, selectVars, keys, cli, git, pages>>

InitProperties ==
    /\ CoreIdle
    /\ caller = "properties"
    /\ TimeIdle
    /\ CsvIdle
    /\ SelectIdle
    /\ keys = NoKeys /\ cli = NoCli /\ git = NoGit /\ pages = NoPages
    /\ \E found \in BOOLEAN, overwrite \in BOOLEAN,
          detected_extensions \in SUBSET Extensions :
         LET content == IF found THEN ExistingContent ELSE <<>>
         IN  properties =
               [NoProperties EXCEPT !.pc = "ready", !.exists = found,
                    !.content = content, !.overwrite = overwrite,
                    !.detected_extensions = detected_extensions,
                    !.before = content]

NextProperties ==
    \/ GenerateSonarProperties

SpecProperties == InitProperties /\ [][NextProperties]_vars

(* ================================ claims =============================== *)
Syncs(repo) == CountFor("clone", repo) + CountFor("pull", repo)
OtherOperation(op) == IF op = "pull" THEN "clone" ELSE "pull"
EndsOf(repo) == {p \in DOMAIN trace : trace[p].kind = "action_end" /\ trace[p].repo = repo}
FailureEvents ==
    {p \in DOMAIN trace : trace[p].kind \in {"clone", "pull", "action_end"}
                          /\ trace[p].out \in {"fail", "raise"}}
RepoIndex(repo) == CHOOSE k \in DOMAIN repositories : repositories[k] = repo
ExternalWork ==
    {"scanner_run", "ce_task_request", "quality_gate_request",
     "ci_mainbranch_request", "ci_trigger_request", "ci_steps_request"}
Min(S) == CHOOSE m \in S : \A n \in S : m <= n

\* C1: the returned summary has successful + failed = number of repository
\* summaries, and failed is the number of summaries with success = false.
C1_SummaryCounts ==
    summary.returned =>
        /\ summary.successful_repositories + summary.failed_repositories
             = Len(summary.repositories)
        /\ summary.failed_repositories
             = Cardinality({k \in DOMAIN summary.repositories :
                               ~summary.repositories[k].success})

C1_Witness ==
    /\ summary.returned
    /\ summary.failed_repositories >= 1
    /\ summary.successful_repositories >= 1

\* C2: in a dry run every selected repository gets a summary with dry_run,
\* success, no action results and the pipeline's names as planned actions,
\* and the only collaborator calls are list_repositories and path_exists.
C2_DryRunNoSideEffects ==
    args.dry_run =>
        /\ \A p \in DOMAIN trace : trace[p].kind \in {"list_repositories", "path_exists"}
        /\ \A k \in DOMAIN summaries :
              /\ summaries[k].dry_run
              /\ summaries[k].success
              /\ summaries[k].action_results = <<>>
              /\ summaries[k].planned_actions = pipeline
              /\ summaries[k].repo_slug = repositories[k]
        /\ summary.returned =>
              /\ summary.repositories = summaries
              /\ Len(summary.repositories) = Len(repositories)

C2_Witness ==
    /\ summary.returned
    /\ args.dry_run
    /\ Len(summary.repositories) = 2
    /\ Len(pipeline) >= 1

\* C3: in a non-dry-run iteration, path_exists = true means pull and never
\* clone, path_exists = false means clone and never pull, and the summary's
\* sync_operation is the operation that was invoked.
C3_SyncMatchesPathExists ==
    ~args.dry_run =>
        /\ \A p \in DOMAIN trace :
              trace[p].kind = "path_exists" =>
                 /\ trace[p].out = "true" =>
                       /\ CountFor("clone", trace[p].repo) = 0
                       /\ CountFor("get_clone_url", trace[p].repo) = 0
                 /\ trace[p].out = "false" => CountFor("pull", trace[p].repo) = 0
        /\ \A k \in DOMAIN summaries :
              /\ CountFor(summaries[k].sync_operation, summaries[k].repo_slug) = 1
              /\ CountFor(OtherOperation(summaries[k].sync_operation),
                          summaries[k].repo_slug) = 0

C3_Witness ==
    /\ summary.returned
    /\ \E j, k \in DOMAIN summary.repositories :
          /\ summary.repositories[j].sync_operation = "pull"
          /\ summary.repositories[k].sync_operation = "clone"
          /\ CountFor("pull", summary.repositories[j].repo_slug) = 1
          /\ CountFor("clone", summary.repositories[k].repo_slug) = 1

\* C4 as stated: when execute returns, every selected repository was synced
\* exactly once unless dry_run is set, whatever stop_on_error is.
C4_Original ==
    summary.returned =>
        \A k \in DOMAIN repositories : Syncs(repositories[k]) = 1 \/ args.dry_run

\* C4 amended: every selected repository is synced at most once; when execute
\* returns it was synced exactly once if dry_run is false and either
\* stop_on_error is false or no earlier repository of the list failed, and
\* not at all otherwise.
C4_Amended ==
    /\ \A r \in Slugs : Syncs(r) <= 1
    /\ summary.returned =>
          \A k \in DOMAIN repositories :
             Syncs(repositories[k]) =
                IF /\ ~args.dry_run
                   /\ \/ ~args.stop_on_error
                      \/ \A j \in 1..(k - 1) :
                            /\ j \in DOMAIN summary.repositories
                            /\ summary.repositories[j].success
                THEN 1 ELSE 0

C4_Witness ==
    /\ summary.returned
    /\ args.stop_on_error
    /\ ~args.dry_run
    /\ Len(repositories) = 2
    /\ Syncs(repositories[1]) = 1
    /\ Syncs(repositories[2]) = 0

\* C5: with stop_on_error = false and dry_run = false, a sync that raises
\* gives that repository a summary with success = false, an error and no
\* action results, runs none of its actions, and every later repository is
\* still processed.
C5_SyncFailureContained ==
    (~args.stop_on_error /\ ~args.dry_run) =>
        /\ \A p \in DOMAIN trace :
              (trace[p].kind \in {"clone", "pull"} /\ trace[p].out = "raise") =>
                 /\ CountFor("action_start", trace[p].repo) = 0
                 /\ \E k \in DOMAIN summaries :
                       /\ summaries[k].repo_slug = trace[p].repo
                       /\ ~summaries[k].success
                       /\ summaries[k].error /= NoError
                       /\ summaries[k].action_results = <<>>
        /\ summary.returned =>
              \A k \in DOMAIN repositories :
                 /\ k \in DOMAIN summary.repositories
                 /\ summary.repositories[k].repo_slug = repositories[k]
                 /\ Syncs(repositories[k]) = 1

C5_Witness ==
    /\ summary.returned
    /\ ~args.stop_on_error
    /\ Len(summary.repositories) = 2
    /\ \E p \in DOMAIN trace :
          /\ trace[p].kind \in {"clone", "pull"}
          /\ trace[p].out = "raise"
          /\ trace[p].repo = repositories[1]
    /\ summary.repositories[2].success
    /\ Len(summary.repositories[2].action_results) >= 1

\* C6 as stated: an action that returns success = false or raises is recorded
\* in the repository's action_results, the repository is marked failed, and
\* every action of the pipeline still runs for that repository.
C6_Original ==
    \A k \in DOMAIN summaries :
       \A p \in EndsOf(summaries[k].repo_slug) :
          trace[p].out \in {"fail", "raise"} =>
             /\ trace[p].idx \in DOMAIN summaries[k].action_results
             /\ ~summaries[k].action_results[trace[p].idx].success
             /\ ~summaries[k].success
             /\ \A a \in DOMAIN pipeline :
                   \E q \in EndsOf(summaries[k].repo_slug) : trace[q].idx = a

\* C6 amended: when no action of the repository raises, an action that
\* returns success = false is recorded in action_results, the repository is
\* marked failed and every action of the pipeline still runs; when an action
\* raises, the repository is marked failed with the exception as its error
\* and empty action_results, and the actions after it do not run.
C6_Amended ==
    \A k \in DOMAIN summaries :
       LET ends == EndsOf(summaries[k].repo_slug)
           raises == {p \in ends : trace[p].out = "raise"}
       IN IF raises /= {}
          THEN /\ ~summaries[k].success
               /\ summaries[k].error.kind = "exception"
               /\ summaries[k].action_results = <<>>
               /\ \A p \in raises, q \in ends : trace[q].idx <= trace[p].idx
          ELSE \A p \in ends :
                  trace[p].out = "fail" =>
                     /\ trace[p].idx \in DOMAIN summaries[k].action_results
                     /\ ~summaries[k].action_results[trace[p].idx].success
                     /\ ~summaries[k].success
                     /\ summaries[k].error.kind = "actions_failed"
                     /\ \A a \in DOMAIN pipeline : \E q \in ends : trace[q].idx = a

C6_Witness ==
    \E k \in DOMAIN summaries :
       /\ Len(summaries[k].action_results) = 2
       /\ ~summaries[k].action_results[1].success
       /\ summaries[k].action_results[2].success
       /\ ~summaries[k].success

\* C7: with stop_on_error = true and dry_run = false, the first failed
\* repository ends the run: it is the last summary entry, nothing of a later
\* repository is called, and exactly one entry has success = false.
C7_StopOnFirstFailure ==
    (args.stop_on_error /\ ~args.dry_run) =>
        /\ \A k \in DOMAIN summaries :
              ~summaries[k].success =>
                 /\ k = Len(summaries)
                 /\ pc \in {"aggregate", "done"}
                 /\ \A p \in DOMAIN trace :
                       trace[p].repo /= 0 =>
                          \E j \in 1..k : summaries[j].repo_slug = trace[p].repo
        /\ summary.returned =>
              summary.failed_repositories = IF FailureEvents /= {} THEN 1 ELSE 0

C7_Witness ==
    /\ summary.returned
    /\ args.stop_on_error
    /\ summary.failed_repositories = 1
    /\ Len(summary.repositories) = 1
    /\ Len(repositories) = 2

\* C8: in a non-dry run the events are ordered: a repository's sync returns
\* before its first action starts, its actions run in pipeline order, the
\* Sonar state-file write comes after that action's scanner and HTTP work,
\* and the events of a repository come before those of the next one.
C8_EventOrder ==
    ~args.dry_run =>
       \A q \in DOMAIN trace :
          /\ trace[q].kind = "action_start" =>
                /\ \E s \in 1..(q - 1) :
                      /\ trace[s].kind \in {"clone", "pull"}
                      /\ trace[s].repo = trace[q].repo
                      /\ trace[s].out = "ok"
                /\ trace[q].idx =
                      1 + Cardinality({p \in 1..(q - 1) :
                                          /\ trace[p].kind = "action_start"
                                          /\ trace[p].repo = trace[q].repo})
          /\ trace[q].kind \in ExternalWork =>
                \A p \in 1..(q - 1) :
                   trace[p].kind \in {"state_write", "state_write_failed"} =>
                      ~(trace[p].repo = trace[q].repo /\ trace[p].idx = trace[q].idx)
          \* the repository positions, and within a repository the action
          \* positions, never decrease from one event to the next
          /\ (q > 1 /\ trace[q - 1].repo /= 0) =>
                /\ trace[q].repo /= 0
                /\ RepoIndex(trace[q - 1].repo) <= RepoIndex(trace[q].repo)
                /\ trace[q - 1].repo = trace[q].repo =>
                      trace[q - 1].idx <= trace[q].idx

C8_Witness ==
    /\ summary.returned
    /\ Len(repositories) = 2
    /\ \E p, q, w, a \in DOMAIN trace :
          /\ p < q /\ q < w /\ w < a
          /\ trace[p].kind \in {"clone", "pull"} /\ trace[p].repo = repositories[1]
          /\ trace[q].kind \in ExternalWork /\ trace[q].repo = repositories[1]
          /\ trace[w].kind = "state_write" /\ trace[w].repo = repositories[1]
          /\ trace[a].kind = "action_start" /\ trace[a].repo = repositories[2]

\* C9: when no action raises, ActionPipeline.run returns one result per
\* executed action, in action order; without fail_fast all n actions are
\* executed, with fail_fast the actions up to the first failed one and none
\* after it.
C9_PipelineRun ==
    pc = "returned" =>
       LET ends == SelectSeq(trace, LAMBDA e : e.kind = "action_end")
           fails == {k \in DOMAIN results : ~results[k].success}
           expected == IF fail_fast /\ fails /= {} THEN Min(fails) ELSE Len(pipeline)
       IN /\ Len(results) = expected
          /\ Len(ends) = expected
          /\ \A k \in 1..expected :
                /\ ends[k].idx = k
                /\ ends[k].repo = CurrentRepo
                /\ results[k].action_name = pipeline[k]
                /\ results[k].success <=> ends[k].out = "ok"

C9_Witness ==
    /\ pc = "returned"
    /\ fail_fast
    /\ Len(pipeline) = 2
    /\ Len(results) = 1
    /\ ~results[1].success

C10_HoldsEntry ==
    /\ call.file.kind = "scans"
    /\ Entry(StateKey(ResolveSonarUrl(sonar), ProjectKey(CurrentRepo),
                      IF sonar.branch_analysis THEN call.branch_name ELSE None),
             call.revision, "SUCCESS") \in call.file.scans

C10_Stated ==
    /\ caller = "direct"
    /\ call.stage /= "none"
    /\ sonar.skip_unchanged
    /\ ~sonar.force_scan
    /\ ResolveSonarUrl(sonar) \notin {None, ""}
    /\ call.revision /= None
    /\ C10_HoldsEntry

C10_Skipped ==
    /\ call.stage = "done"
    /\ history = <<[raised |-> FALSE,
                    result |-> SonarResult(TRUE, "unchanged", "", call.revision)]>>
    /\ \A p \in DOMAIN trace :
          trace[p].kind \in {"action_start", "git_branch_query",
                             "git_remote_head_query", "git_revision_query",
                             "state_read", "action_end"}
    /\ stateFile[CurrentRepo] = call.file

\* C10 as stated: with skip_unchanged and not force_scan, when HEAD is at
\* revision r and the state file holds (r, SUCCESS) under the key (sonar_url,
\* project_key, scanner branch or "default"), execute returns success with
\* reason "unchanged" and makes no network call, scanner run, throttle sleep
\* or state-file write.
C10_Original == C10_Stated => C10_Skipped

\* C10 amended: the same, provided the Sonar token resolves; without a token
\* execute returns the failure "Missing Sonar token" before the state file
\* is consulted.
C10_UnchangedSkip ==
    (C10_Stated /\ ResolveSonarToken(sonar) /= None) => C10_Skipped

C10_Witness ==
    /\ caller = "direct"
    /\ call.stage = "done"
    /\ history /= <<>>
    /\ history[1].result.reason = "unchanged"
    /\ sonar.branch_analysis
    /\ call.branch_name = "dev"
    /\ call.revision = "r2"
    /\ sonar.submission_delay_seconds > 0
    /\ last_submission[1]

\* C11: execute writes the state file only when the overall outcome is
\* success and the revision is known; after every failing or raising call,
\* and after every call with an unknown revision, the state file is the one
\* found when the call began.
C11_OnlySuccessesPersist ==
    (caller = "dispatch" /\ call.stage = "done" /\ history /= <<>>) =>
       LET failed == \/ history[1].raised
                     \/ ~history[1].result.success
                     \/ call.revision = None
           writes == {p \in DOMAIN trace :
                         trace[p].kind \in {"state_write", "state_write_failed"}}
       IN /\ failed => (stateFile[CurrentRepo] = call.file /\ writes = {})
          /\ writes /= {} => (history[1].result.success /\ call.revision /= None)

C11_Witness ==
    /\ caller = "dispatch"
    /\ call.stage = "done"
    /\ history /= <<>>
    /\ ~history[1].raised
    /\ ~history[1].result.success
    /\ history[1].result.final_status = "TIMEOUT"
    /\ call.revision = "r1"
    /\ call.file.scans /= {}
    /\ stateFile[CurrentRepo] = call.file

\* the terminal status of the first terminal response, "none" without one
FirstTerminal(polls) ==
    LET ks == {k \in DOMAIN polls : polls[k] \in {"SUCCESS", "FAILED", "CANCELED"}}
    IN IF ks = {} THEN "none" ELSE polls[Min(ks)]

\* the dispatch of the running call has computed success and final_status
Dispatched ==
    /\ caller = "dispatch"
    /\ call.stage \in {"persist", "done"}
    /\ call.in /= NoInput

\* the result execute returned agrees with the outcome of the dispatch
ReturnsOutcome ==
    (call.stage = "done" /\ history /= <<>> /\ ~history[1].raised) =>
        /\ history[1].result.success = call.success
        /\ history[1].result.final_status = call.final_status

\* C12: in local mode with wait_mode sync the outcome follows the scanner's
\* exit code, the CE task id and the polling: exit code 0 without a CE task
\* id fails with FAILED and no poll; a first terminal status SUCCESS succeeds
\* with SUCCESS; FAILED or CANCELED fails with that status; a deadline
\* reached without terminal status fails with TIMEOUT; a non-zero exit code
\* fails with FAILED and no poll.
C12_LocalSyncOutcome ==
    (/\ Dispatched
     /\ sonar.execution_mode = "local"
     /\ sonar.wait_mode = "sync"
     /\ sonar.has_scanner) =>
       LET in == call.in
           requests == CountFor("ce_task_request", CurrentRepo)
           first == FirstTerminal(in.polls)
           waited == in.scan = "exit0" /\ in.ce_id
                     /\ \A k \in DOMAIN in.polls : in.polls[k] /= "nondict"
       IN /\ ReturnsOutcome
          /\ (in.scan = "exit0" /\ ~in.ce_id) =>
                (~call.success /\ call.final_status = "FAILED" /\ requests = 0)
          /\ (waited /\ first = "SUCCESS") =>
                (call.success /\ call.final_status = "SUCCESS")
          /\ (waited /\ first \in {"FAILED", "CANCELED"}) =>
                (~call.success /\ call.final_status = first)
          /\ (waited /\ first = "none") =>
                (~call.success /\ call.final_status = "TIMEOUT"
                 /\ requests = Len(in.polls))
          /\ in.scan = "exit1" =>
                (~call.success /\ call.final_status = "FAILED" /\ requests = 0)

C12_Witness ==
    /\ Dispatched
    /\ call.stage = "done"
    /\ sonar.execution_mode = "local"
    /\ sonar.wait_mode = "sync"
    /\ call.in.scan = "exit0"
    /\ call.in.ce_id
    /\ call.in.polls = <<"PENDING", "CANCELED">>
    /\ history /= <<>>
    /\ ~history[1].result.success
    /\ history[1].result.final_status = "CANCELED"

\* C13 as stated: no failed poll (HTTP or URL error, invalid JSON, response
\* without a task object) aborts the wait; it ends only on a terminal status
\* or at the deadline, with TIMEOUT and the latest error when no terminal
\* status came, and with the terminal status when one came after failures.
C13_Original ==
    /\ wait.pc /= "raised"
    /\ wait.pc = "returned" =>
          LET rs == wait.responses
              ends == {k \in DOMAIN rs : rs[k] \in {"SUCCESS", "FAILED", "CANCELED"}}
              errors == {k \in DOMAIN rs :
                            rs[k] \in {"url_error", "bad_json", "no_task", "nondict"}}
          IN IF ends /= {}
             THEN ends = {Len(rs)} /\ wait.status = rs[Len(rs)]
             ELSE /\ wait.status = "TIMEOUT"
                  /\ now >= wait.deadline
                  /\ errors /= {} =>
                        wait.last_error = rs[CHOOSE k \in errors : \A j \in errors : j <= k]

\* C15 as stated: a call of _wait_for_ce_task ends at most
\* wait_timeout_seconds + poll_interval_seconds after it began, each poll
\* request taking up to its HTTP timeout.
C15_Original ==
    wait.pc \in {"returned", "raised"} =>
       now - wait.started <= wait.wait_timeout_seconds + wait.poll_interval_seconds

\* C14 as stated: of two consecutive executions of one instance that reach
\* the mode dispatch, the second starts its dispatch at least
\* submission_delay_seconds after the first started its own.
C14_Original ==
    \A k \in 2..Len(throttle.starts) :
       throttle.starts[k] >= throttle.starts[k - 1] + sonar.submission_delay_seconds

\* C16: in cloud mode the scanner runner is never invoked and the outcome
\* follows the quality-gate response: OK or NONE succeed with SUCCESS, ERROR
\* fails with ERROR, HTTP 404 succeeds with SKIPPED_STATUS_CHECK and an
\* endpoint-error marker in the metadata.
C16_CloudOutcome ==
    (caller = "dispatch" /\ sonar.execution_mode = "cloud") =>
       /\ CountFor("scanner_run", CurrentRepo) = 0
       /\ Dispatched =>
             /\ ReturnsOutcome
             /\ CountFor("quality_gate_request", CurrentRepo) = 1
             /\ call.in.qg \in {"OK", "NONE"} =>
                   (call.success /\ call.final_status = "SUCCESS"
                    /\ call.endpoint_error = None)
             /\ call.in.qg = "ERROR" =>
                   (~call.success /\ call.final_status = "ERROR")
             /\ call.in.qg = "404" =>
                   (call.success /\ call.final_status = "SKIPPED_STATUS_CHECK"
                    /\ call.endpoint_error /= None)

C16_Witness ==
    /\ Dispatched
    /\ call.stage = "done"
    /\ sonar.execution_mode = "cloud"
    /\ call.in.qg = "404"
    /\ history /= <<>>
    /\ ~history[1].raised
    /\ history[1].result.success
    /\ history[1].result.final_status = "SKIPPED_STATUS_CHECK"

\* C17 as stated: in cloud mode, when the quality-gate request fails with an
\* HTTP error other than 404 or with a URL error, execute does not raise: it
\* returns a result with success = false.
C17_Original ==
    (/\ Dispatched
     /\ call.stage = "done"
     /\ sonar.execution_mode = "cloud"
     /\ call.in.qg \in {"http_error", "url_error"}) =>
        /\ history /= <<>>
        /\ ~history[1].raised
        /\ ~history[1].result.success

\* the outcome of the last step verification execute made in ci mode:
\* "true", "false", or "none" when it was inconclusive or not made
C18_LastDetected ==
    LET inspected == CountFor("ci_steps_request", CurrentRepo)
        triggers == CountFor("ci_trigger_request", CurrentRepo)
    IN IF inspected = 0 THEN "none"
       ELSE IF triggers = 2 /\ inspected = 1 THEN "none"
       ELSE call.in.steps[inspected]

C18_CiVerifying ==
    /\ caller = "dispatch"
    /\ sonar.execution_mode = "ci"
    /\ sonar.ci_verify
    /\ call.stage \in {"persist", "done"}
    /\ call.in /= NoInput

\* the first pipeline's steps were inspected before the second trigger, and
\* none referenced sonar
C18_FirstInspectedWithoutSonar ==
    /\ call.in.steps[1] = "false"
    /\ \E p \in PositionsFor("ci_steps_request", CurrentRepo) :
          /\ \E t \in PositionsFor("ci_trigger_request", CurrentRepo) : t < p
          /\ \E t \in PositionsFor("ci_trigger_request", CurrentRepo) : p < t

\* a last verification that found no Sonar step: execute does not succeed
\* and the state file is the one found when the call began
C18_FailsWithoutSonarStep ==
    (call.stage = "done" /\ history /= <<>> /\ C18_LastDetected = "false") =>
        /\ history[1].raised \/ ~history[1].result.success
        /\ stateFile[CurrentRepo] = call.file
        /\ CountFor("state_write", CurrentRepo) = 0

\* C18 as stated: the second trigger is made only when the variable
\* SONAR_CI_SONAR_SELECTOR is configured and its value differs from the
\* first trigger's selector.
C18_Original ==
    C18_CiVerifying =>
       /\ CountFor("ci_trigger_request", CurrentRepo) <= 2
       /\ CountFor("ci_trigger_request", CurrentRepo) = 2 =>
             /\ C18_FirstInspectedWithoutSonar
             /\ sonar.env_SONAR_CI_SONAR_SELECTOR \notin {None, "", " "}
             /\ sonar.env_SONAR_CI_SONAR_SELECTOR /= sonar.ci_selector
       /\ C18_FailsWithoutSonarStep

\* C18: in ci mode with step verification execute triggers a pipeline at
\* most twice; a second trigger is made only when the first pipeline's steps
\* were inspected and none references sonar, and the fallback selector (the
\* value of SONAR_CI_SONAR_SELECTOR, "sonar-scan" when the variable is unset
\* or empty) is not blank and differs from the first trigger's selector;
\* when the last verification finds no Sonar step execute does not succeed
\* and the state file is not written.
C18_AtMostTwoTriggers ==
    C18_CiVerifying =>
       /\ CountFor("ci_trigger_request", CurrentRepo) <= 2
       /\ CountFor("ci_trigger_request", CurrentRepo) = 2 =>
             /\ C18_FirstInspectedWithoutSonar
             /\ FallbackSelector(sonar) /= ""
             /\ FallbackSelector(sonar) /= sonar.ci_selector
       /\ C18_FailsWithoutSonarStep

C18_Witness ==
    /\ C18_CiVerifying
    /\ call.stage = "done"
    /\ sonar.env_SONAR_CI_SONAR_SELECTOR = "sonar-nightly"
    /\ sonar.ci_selector = "build"
    /\ CountFor("ci_trigger_request", CurrentRepo) = 2
    /\ CountFor("ci_steps_request", CurrentRepo) = 2
    /\ call.in.steps = <<"false", "false">>
    /\ history /= <<>>
    /\ history[1].raised
    /\ stateFile[CurrentRepo] = call.file

\* the Sonar URL or the Sonar token does not resolve
C19_Unresolved ==
    \/ ResolveSonarUrl(sonar) \in {None, ""}
    \/ ResolveSonarToken(sonar) \in {None, ""}

\* C19: when the Sonar URL or the Sonar token cannot be resolved, execute
\* returns at once a failing result without side effects: no git query, no
\* state-file read or write, no throttle sleep, no scanner run, no HTTP
\* request, and the last-submission timestamp stays as it was.
C19_MissingConfigurationNoEffects ==
    (caller = "dispatch" /\ C19_Unresolved) =>
       /\ \A p \in DOMAIN trace : trace[p].kind \in {"action_start", "action_end"}
       /\ call.stage \in {"none", "done"}
       /\ call.in = NoInput
       /\ last_submission = NoInstanceSubmitted
       /\ call.stage = "done" =>
             /\ stateFile[CurrentRepo] = call.file
             /\ Len(history) = 1
             /\ ~history[1].raised
             /\ ~history[1].result.success

C19_Witness ==
    /\ caller = "dispatch"
    /\ ResolveSonarUrl(sonar) = "https://s"
    /\ ResolveSonarToken(sonar) = None
    /\ call.stage = "done"
    /\ call.file.scans /= {}
    /\ stateFile[CurrentRepo] = call.file
    /\ Len(trace) = 2
    /\ Len(history) = 1
    /\ ~history[1].raised
    /\ ~history[1].result.success

\* the report as call j of execute left it
C20_After(j) ==
    IF j = Len(csvCalls) THEN report_csv ELSE csvCalls[j + 1].before

\* call j of execute is made for the (workspace, slug) of an earlier call
C20_Further(j) ==
    \E k \in 1..(j - 1) :
       /\ csvCalls[k].repo_context.workspace_id = csvCalls[j].repo_context.workspace_id
       /\ csvCalls[k].repo_context.slug = csvCalls[j].repo_context.slug

\* C20: with regenerate = false, after a first execute for a (workspace,
\* slug), every further execute for the same pair, with the same or with
\* other detected extensions, leaves the CSV file byte-identical and returns
\* success with row_written = false.
C20_SkipIsIdempotent ==
    (caller = "csv" /\ ~csvAction.regenerate) =>
       \A j \in DOMAIN csvCalls :
          C20_Further(j) =>
             /\ C20_After(j) = csvCalls[j].before
             /\ csvCalls[j].success
             /\ ~csvCalls[j].row_written

C20_Witness ==
    /\ caller = "csv"
    /\ ~csvAction.regenerate
    /\ Len(csvCalls) = 2
    /\ csvCalls[1].repo_context.slug = <<"a", Delimiter, "b">>
    /\ csvCalls[1].repo_context.detected_extensions = {}
    /\ csvCalls[1].row_written
    /\ csvCalls[2].repo_context.slug = <<"a", Delimiter, "b">>
    /\ csvCalls[2].repo_context.detected_extensions = {".js", ".py"}
    /\ ~csvCalls[2].row_written
    /\ report_csv = csvCalls[2].before
    /\ report_csv.exists

\* the calls of execute made for the pair (workspace, slug)
C21_CallsFor(workspace, slug) ==
    {j \in DOMAIN csvCalls : /\ csvCalls[j].repo_context.workspace_id = workspace
                             /\ csvCalls[j].repo_context.slug = slug}

\* the sorted extensions joined by the delimiter, written out
C21_Sorted(extensions, delimiter) ==
    CASE extensions = {} -> <<>>
      [] extensions = {".py"} -> <<".py">>
      [] extensions = {".js"} -> <<".js">>
      [] extensions = {".js", ".py"} -> <<".js", delimiter, ".py">>

\* C21: starting from an absent or an empty report, after any sequence of
\* executes with regenerate = true the file holds exactly one row for every
\* (workspace, slug) executed at least once and no other row, and that row's
\* extensions field is the sorted detected extensions of the latest execute
\* for the pair.
C21_Upsert ==
    (/\ caller = "csv"
     /\ csvAction.regenerate
     /\ csvCalls /= <<>>
     /\ csvCalls[1].before \in {NoReport, [exists |-> TRUE, bytes |-> <<>>]}) =>
       LET rows == ReadRows(report_csv)
           executed == {<<csvCalls[j].repo_context.workspace_id,
                          csvCalls[j].repo_context.slug>> : j \in DOMAIN csvCalls}
       IN /\ report_csv.exists
          /\ Len(rows) = Cardinality(executed)
          /\ \A key \in executed :
                LET at == {k \in DOMAIN rows : /\ rows[k]["workspace"] = key[1]
                                               /\ rows[k]["repo_slug"] = key[2]}
                    calls == C21_CallsFor(key[1], key[2])
                    latest == CHOOSE j \in calls : \A k \in calls : k <= j
                IN /\ Cardinality(at) = 1
                   /\ \A k \in at :
                         rows[k]["extensions"] =
                            C21_Sorted(csvCalls[latest].repo_context.detected_extensions,
                                       csvAction.extensions_delimiter)

C21_Witness ==
    /\ caller = "csv"
    /\ csvAction.regenerate
    /\ csvAction.extensions_delimiter = Delimiter
    /\ Len(csvCalls) = 3
    /\ csvCalls[1].before = NoReport
    /\ csvCalls[1].repo_context.slug = <<"a", LineFeed>>
    /\ csvCalls[1].repo_context.detected_extensions = {}
    /\ csvCalls[2].repo_context.slug = <<"a">>
    /\ csvCalls[3].repo_context.slug = <<"a", LineFeed>>
    /\ csvCalls[3].repo_context.detected_extensions = {".js", ".py"}
    /\ csvCalls[3].row_written
    /\ Len(ReadRows(report_csv)) = 2
    /\ ReadRows(report_csv)[1]["extensions"] = <<".js", Delimiter, ".py">>

\* the limit applies: the slug-filtered list is longer than max_repos
C22_Exceeded ==
    /\ caller = "select"
    /\ listing.max_repos /= NoLimit
    /\ Len(FilterBySlug(listing.provider, listing.only_repo_slug)) > listing.max_repos

\* C22: when the slug-filtered provider list has more than max_repos
\* entries, repo_selection first processes exactly the first max_repos
\* repositories in provider order; repo_selection random selects max_repos
\* distinct entries of the provider list, and with a fixed random_seed two
\* runs over the same list select the same repositories in the same order.
C22_Selection ==
    C22_Exceeded =>
       \A a \in DOMAIN selectRuns :
          LET selected == selectRuns[a]
          IN /\ listing.repo_selection = "first" =>
                   /\ Len(selected) = listing.max_repos
                   /\ \A k \in DOMAIN selected : selected[k] = listing.provider[k]
             /\ listing.repo_selection = "random" =>
                   /\ Len(selected) = listing.max_repos
                   /\ \A k \in DOMAIN selected :
                         \E q \in DOMAIN listing.provider : selected[k] = listing.provider[q]
                   /\ \A k, q \in DOMAIN selected : k /= q => selected[k] /= selected[q]
                   /\ listing.random_seed /= NoSeed =>
                         \A b \in DOMAIN selectRuns : selectRuns[b] = selected

C22_Witness ==
    /\ C22_Exceeded
    /\ listing.repo_selection = "random"
    /\ listing.random_seed = 7
    /\ listing.provider = <<1, 2, 3>>
    /\ listing.max_repos = 2
    /\ Len(selectRuns) = 2
    /\ selectRuns[1] = <<3, 1>>
    /\ selectRuns[2] = <<3, 1>>

\* the characters [A-Za-z0-9_\-.:]
C23_Allowed == AsciiAlnum \cup KeptSigns

\* key is value with every character outside [A-Za-z0-9_\-.:] replaced by
\* '_' and nothing else changed
C23_Sanitized(value, key) ==
    /\ Len(key) = Len(value)
    /\ \A k \in DOMAIN key :
          /\ key[k] \in C23_Allowed
          /\ key[k] = IF value[k] \in C23_Allowed THEN value[k] ELSE "_"

\* C23 as stated: for every workspace id and slug, non-ASCII letters and
\* digits included, the project key made from "<workspace>_<slug>" has the
\* length of the input and holds only characters of [A-Za-z0-9_\-.:], every
\* other character being replaced by '_'.
C23_Original ==
    LET value == keys.workspace_id \o <<"_">> \o keys.slug
    IN /\ "scan" \in keys.done => C23_Sanitized(value, keys.project_key)
       /\ "properties" \in keys.done => C23_Sanitized(value, keys.sanitized)

\* the command line or the environment holds a usage or validation error
C24_Invalid ==
    \/ ~cli.argv_accepted
    \/ LoadConfig(cli) /= "ok"
    \/ ParseBool(cli.env_GIT_STOP_ON_ERROR) = "RuntimeError"

\* C24 as stated: main ends with exit code 0 only when the summary has no
\* failed repository, with exit code 1 whenever the returned summary holds a
\* failed repository, and with exit code 2 on usage and validation errors.
C24_Original ==
    (caller = "cli" /\ cli.pc = "done") =>
       /\ cli.exit_code = 0 => (cli.summary_returned /\ cli.failed_repositories = 0)
       /\ (cli.summary_returned /\ cli.failed_repositories > 0) => cli.exit_code = 1
       /\ C24_Invalid => cli.exit_code = 2

\* C29 as stated: the FileSystem adapter provides ensure_directory,
\* path_exists and list_files_recursive, so that the scanner of the command
\* line is constructed whenever the provider is bitbucket.
C29_Original ==
    (caller = "cli" /\ cli.pc = "done" /\ ~C24_Invalid /\ cli.provider = "bitbucket"
     /\ cli.env_GIT_ACTIONS /= "bogus") =>
        /\ FileSystemPortMethods \subseteq LocalFileSystemAdapterMethods
        /\ cli.scanner_built
        /\ cli.raised = None

\* C27: clone on a local path that exists runs no git command and changes
\* nothing; pull on a path that does not exist, or that holds no .git entry,
\* fails before any git command is run.
C27_Guards ==
    [][/\ (git.pc = "ready" /\ git'.op = "clone" /\ git.path /= "absent") =>
              git' = [git EXCEPT !.pc = "done", !.op = "clone"]
       /\ (git.pc = "ready" /\ git'.op = "pull" /\ git.path /= "repository") =>
              git' = [git EXCEPT !.pc = "done", !.op = "pull", !.error = TRUE]]_vars

C27_Witness ==
    /\ git.pc = "done" /\ git.op = "clone" /\ git.path = "repository"
    /\ git.head = "dev" /\ git.commands = <<>> /\ ~git.error

\* the stated candidates of a working copy: the remote default HEAD, master,
\* main, the current branch
C25_Stated(g) == <<g.origin_head, "master", "main", g.head>>

\* the first stated candidate that exists as origin/<branch>, None without one
C25_Primary(g) ==
    LET stated == C25_Stated(g)
        found == {m \in 1..4 : stated[m] \in g.remote}
    IN IF found = {} THEN None ELSE stated[Min(found)]

\* the positions of the commands of a trace that are among some commands
C25_Positions(commands, among) == {m \in 1..Len(commands) : commands[m] \in among}

C25_Checkouts == {CheckoutCmd(b) : b \in Branches} \cup {CheckoutTrackCmd(b) : b \in Branches}

C25_Pulls == {PullCmd} \cup {PullFromCmd(b) : b \in Branches}

\* C25: the primary branch of a pull is the first of remote default HEAD,
\* master, main and the current branch (when not detached) that exists on
\* origin; a primary branch that differs from the current branch is checked
\* out before any pull command, as the local branch when there is one and
\* as a new branch tracking origin/<branch> otherwise; after a successful
\* pull with a primary branch, the primary branch is checked out.
C25_PrimaryBranch ==
    /\ [][(git.pc = "current" /\ git'.pc = "checkout") =>
             git'.primary_branch = C25_Primary(git)]_vars
    /\ [][(git.pc = "checkout" /\ git'.pc = "upstream"
           /\ git.primary_branch /= None /\ git.head /= git.primary_branch) =>
             /\ git'.head = git.primary_branch
             /\ git'.commands[Len(git'.commands)] =
                   IF git.primary_branch \in git.local
                   THEN CheckoutCmd(git.primary_branch)
                   ELSE CheckoutTrackCmd(git.primary_branch)]_vars
    /\ [](\A m \in C25_Positions(git.commands, C25_Checkouts) :
             \A n \in C25_Positions(git.commands, C25_Pulls) : m < n)
    /\ []((git.op = "pull" /\ git.pc = "done" /\ ~git.error
           /\ git.primary_branch /= None) => git.head = git.primary_branch)

C25_Witness ==
    /\ git.op = "pull" /\ git.pc = "done" /\ ~git.error
    /\ git.origin_head = "dev" /\ git.remote = Branches
    /\ git.primary_branch = "dev" /\ git.head = "dev"
    /\ C25_Positions(git.commands, {CheckoutTrackCmd("dev")}) /= {}

\* the branch stated for the pull of a branch without upstream: the current
\* branch when it exists on origin, the remote default branch, main, master
C26_Stated(g) ==
    IF g.head \in g.remote THEN g.head
    ELSE IF g.origin_head /= None THEN g.origin_head
    ELSE IF "main" \in g.remote THEN "main"
    ELSE IF "master" \in g.remote THEN "master"
    ELSE None

C26_SetUpstreams == {SetUpstreamCmd(b) : b \in Branches}

\* C26: a pull runs fetch --prune origin first and remote set-head origin -a
\* second, a failing set-head not failing the pull; then at most one
\* checkout, then at most one set-upstream, then exactly one pull command or
\* an error. For a branch that still has no upstream the pull command names
\* origin and the first applicable of the current branch (when on origin),
\* the remote default branch, main, master; without any, the pull fails and
\* no pull command is run.
C26_CommandOrder ==
    /\ [](git.op = "pull" =>
            LET checkouts == C25_Positions(git.commands, C25_Checkouts)
                upstreams == C25_Positions(git.commands, C26_SetUpstreams)
                pulls == C25_Positions(git.commands, C25_Pulls)
            IN /\ Len(git.commands) >= 1 => git.commands[1] = FetchCmd
               /\ Len(git.commands) >= 2 => git.commands[2] = SetHeadCmd
               /\ Cardinality(checkouts) <= 1
               /\ Cardinality(upstreams) <= 1
               /\ Cardinality(pulls) <= 1
               /\ \A m \in checkouts : m > 2 /\ \A n \in upstreams \cup pulls : m < n
               /\ \A m \in upstreams : m > 2 /\ \A n \in pulls : m < n
               /\ pulls \subseteq {Len(git.commands)}
               /\ git.pc = "done" => (git.error \/ Cardinality(pulls) = 1))
    /\ [][(git.pc = "refresh" /\ git'.refreshed = "no") =>
             (~git'.error /\ git'.pc = "current")]_vars
    /\ [][(git.pc = "pull" /\ git'.pc = "done" /\ git.head \notin git.upstream) =>
             LET pulls == C25_Positions(git'.commands, C25_Pulls)
             IN IF C26_Stated(git) = None
                THEN git'.error /\ pulls = {}
                ELSE /\ \A m \in pulls : git'.commands[m] = PullFromCmd(C26_Stated(git))
                     /\ ~git'.error => pulls /= {}]_vars

C26_Witness ==
    /\ git.op = "pull" /\ git.pc = "done" /\ ~git.error
    /\ git.refreshed = "no" /\ git.primary_branch = None
    /\ git.commands[Len(git.commands)] = PullFromCmd("dev")

\* a pull that finds no branch to pull from ends in an error without a pull
\* command
C26_WitnessNoBranch ==
    /\ git.op = "pull" /\ git.pc = "done" /\ git.error
    /\ git.refreshed = "no" /\ git.origin_head = None /\ git.remote = {}
    /\ git.commands[Len(git.commands)] = RemoteRefCmd("master")

\* the entries of the payloads that are objects with a slug and a clone URL,
\* in the order of the pages
RECURSIVE C28_Listed(_)
C28_Listed(payloads) ==
    IF payloads = <<>> THEN <<>>
    ELSE LET kept == SelectSeq(Head(payloads).values.items,
                               LAMBDA item : item.object /\ MapRepository(item) /= <<>>)
         IN [k \in 1..Len(kept) |-> MapRepository(kept[k])[1]] \o C28_Listed(Tail(payloads))

\* the payload ends the listing: its next is absent, empty or not a string
C28_Last(payload) == payload.next.type /= "str" \/ payload.next.url = NoUrl

\* the payload makes the listing raise
C28_Fatal(payload) == payload.status /= "ok" \/ payload.values = NotAList

\* C28: list_repositories requests the first page and then the next URL of
\* each page in turn, once per page, up to the first page whose next is
\* absent, empty or not a string; it returns the mapped repositories of all
\* pages in page order, skipping the entries of values that are not objects,
\* and raises, returning no list, when the values of a page are not a list or
\* a request fails.
C28_Pagination ==
    caller = "pages" =>
       /\ Len(pages.requested) = Len(pages.payloads)
       /\ \A k \in 1..Len(pages.requested) :
             /\ pages.requested[k] = IF k = 1 THEN FirstUrl
                                     ELSE pages.payloads[k - 1].next.url
             /\ \A m \in 1..Len(pages.requested) : pages.requested[m] = pages.requested[k] => m = k
             /\ k < Len(pages.requested) =>
                   (~C28_Last(pages.payloads[k]) /\ ~C28_Fatal(pages.payloads[k]))
       /\ pages.pc = "done" =>
             /\ pages.payloads /= <<>>
             /\ pages.raised = C28_Fatal(pages.payloads[Len(pages.payloads)])
             /\ pages.returned = ~pages.raised
             /\ pages.returned =>
                   /\ C28_Last(pages.payloads[Len(pages.payloads)])
                   /\ pages.result = C28_Listed(pages.payloads)
             /\ pages.raised => pages.result = <<>>

C28_Witness ==
    /\ pages.pc = "done" /\ pages.returned
    /\ pages.requested = <<1, 2>>
    /\ Len(pages.payloads[1].values.items) = 2
    /\ ~pages.payloads[1].values.items[1].object
    /\ pages.payloads[1].values.items[2].slug = "r2"
    /\ pages.payloads[2].values = NoValues
    /\ pages.payloads[2].next.type = "number"
    /\ Len(pages.result) = 1 /\ pages.result[1].slug = "r2"

\* a listing that raises on its second page returns nothing of the first
C28_WitnessRaised ==
    /\ pages.pc = "done" /\ pages.raised
    /\ Len(pages.payloads) = 2 /\ pages.payloads[2].values = NotAList
    /\ pages.repositories /= <<>> /\ pages.result = <<>>

\* the repository of a summary entry had its sync or one of its actions raise
C30_Raised(slug) ==
    \E p \in DOMAIN trace : trace[p].repo = slug /\ trace[p].out = "raise"

\* C30: for every repository of a non-dry run whose sync succeeded and whose
\* actions did not raise, the summary holds exactly one action result per
\* pipeline action, in pipeline order; success is true exactly when every
\* action result has success = true, and error is null exactly when success
\* is true.
C30_ActionResults ==
    summary.returned =>
       \A k \in DOMAIN summary.repositories :
          LET entry == summary.repositories[k]
          IN (~entry.dry_run /\ ~C30_Raised(entry.repo_slug)) =>
                /\ Len(entry.action_results) = Len(pipeline)
                /\ \A a \in DOMAIN pipeline :
                      /\ Cardinality({p \in PositionsFor("action_end", entry.repo_slug) :
                                         trace[p].idx = a}) = 1
                      /\ \A p \in PositionsFor("action_end", entry.repo_slug) :
                            trace[p].idx = a =>
                               entry.action_results[a].success = (trace[p].out = "ok")
                      /\ pipeline[a] = SonarName =>
                            entry.action_results[a].action_name = SonarName
                /\ \A a, b \in DOMAIN pipeline :
                      \A p, q \in PositionsFor("action_end", entry.repo_slug) :
                         (trace[p].idx = a /\ trace[q].idx = b /\ a < b) => p < q
                /\ entry.success = (\A a \in DOMAIN entry.action_results :
                                       entry.action_results[a].success)
                /\ (entry.error = NoError) = entry.success

C30_Witness ==
    /\ summary.returned
    /\ Len(pipeline) = 2
    /\ \E k \in DOMAIN summary.repositories :
          LET entry == summary.repositories[k]
          IN /\ ~entry.dry_run /\ ~C30_Raised(entry.repo_slug)
             /\ Len(entry.action_results) = 2
             /\ ~entry.action_results[1].success
             /\ entry.action_results[2].success
             /\ ~entry.success
             /\ entry.error /= NoError

\* the idempotence gate of the call is closed: force_scan is set,
\* skip_unchanged is not, or HEAD has no revision
C31_GateClosed ==
    /\ caller = "direct"
    /\ call.stage /= "none"
    /\ (sonar.force_scan \/ ~sonar.skip_unchanged \/ call.revision = None)

\* the call did not read the state file, did not answer "unchanged", and
\* went through the throttle and the dispatch before it ended
C31_Proceeds ==
    /\ \A p \in DOMAIN trace : trace[p].kind /= "state_read"
    /\ \A h \in DOMAIN history : history[h].result.reason /= "unchanged"
    /\ call.stage = "done" => call.in /= NoInput

\* C31 as stated: with force_scan, without skip_unchanged or without a
\* revision, execute never reads the state file for the gate, never returns
\* the reason "unchanged" and always proceeds to the throttle and the mode
\* dispatch, whatever the state file holds.
C31_Original == C31_GateClosed => C31_Proceeds

\* C31 amended: the same, provided the Sonar URL and token resolve; without
\* them execute returns the failure of the missing configuration before the
\* throttle and the dispatch.
C31_ForceOverridesSkip ==
    (C31_GateClosed
     /\ ~MissingConfiguration(ResolveSonarUrl(sonar), ResolveSonarToken(sonar)))
       => C31_Proceeds

C31_Witness ==
    /\ caller = "direct"
    /\ call.stage = "done"
    /\ sonar.force_scan /\ sonar.skip_unchanged
    /\ call.revision = "r1"
    /\ C10_HoldsEntry
    /\ call.in /= NoInput
    /\ history /= <<>> /\ history[1].result.success

\* C32: in local mode with wait_mode async and a scanner exit code 0,
\* execute ends with success and final_status SUBMITTED without any CE-task
\* request, whether or not the scanner output held a CE task id.
C32_LocalAsyncSubmitted ==
    (/\ Dispatched
     /\ sonar.execution_mode = "local"
     /\ sonar.wait_mode = "async"
     /\ sonar.has_scanner
     /\ call.in.scan = "exit0") =>
        /\ ReturnsOutcome
        /\ call.success
        /\ call.final_status = "SUBMITTED"
        /\ CountFor("ce_task_request", CurrentRepo) = 0

C32_Witness ==
    /\ Dispatched
    /\ call.stage = "done"
    /\ sonar.execution_mode = "local"
    /\ sonar.wait_mode = "async"
    /\ call.in.scan = "exit0"
    /\ ~call.in.ce_id
    /\ history /= <<>>
    /\ ~history[1].raised
    /\ history[1].result.success
    /\ history[1].result.final_status = "SUBMITTED"

\* the running call got through the dispatch with an outcome to persist
C33_Persisting ==
    /\ call.stage = "done"
    /\ call.in /= NoInput
    /\ ShouldPersist(call.success, call.revision)

\* C33 as stated: a state file that is missing, not JSON, JSON that is not an
\* object, or an object whose scans is not an object counts as empty for the
\* idempotence gate, which proceeds with the scan, and for the persistence;
\* every failure of the persistence step, creating the parent directory or
\* writing the file, is swallowed and execute returns the result of the scan.
C33_Original ==
    caller = "direct" =>
       /\ (/\ call.stage = "done"
           /\ call.file.kind \in {"missing", "corrupt", "nonobject", "noscans"}
           /\ ~MissingConfiguration(ResolveSonarUrl(sonar), ResolveSonarToken(sonar))) =>
              call.in /= NoInput
       /\ C33_Persisting =>
              /\ history = <<[raised |-> FALSE,
                              result |-> SonarResult(TRUE, "", call.final_status,
                                                     call.revision)]>>
              /\ (call.file.kind /= "scans" /\ stateFile[CurrentRepo] /= call.file) =>
                    stateFile[CurrentRepo] =
                       StateFileOf("scans", {Entry(call.key, call.revision,
                                                   call.final_status)})

\* the state key of the running call: sonar_url, project_key and the scanner
\* branch or "default"
C34_Key ==
    StateKey(ResolveSonarUrl(sonar), ProjectKey(CurrentRepo),
             IF sonar.branch_analysis THEN call.branch_name ELSE None)

\* the call returned a success that is not the unchanged skip
C34_Succeeded ==
    /\ caller = "direct"
    /\ call.stage = "done"
    /\ Len(history) = 1
    /\ ~history[1].raised
    /\ history[1].result.success
    /\ history[1].result.reason /= "unchanged"

\* the state file is the file found by the call with the entry of the
\* current key replaced and every other entry kept
C34_Merged ==
    LET old == IF call.file.kind = "scans" THEN call.file.scans ELSE {}
    IN stateFile[CurrentRepo] =
          StateFileOf("scans",
                      {e \in old : e.key /= C34_Key}
                      \cup {Entry(C34_Key, call.revision,
                                  history[1].result.final_status)})

C35_Has(extension) ==
    \E ext \in properties.detected_extensions : Lower(ext) = extension
C35_Priority == <<".java", ".ts", ".js", ".py">>
C35_Names == <<"java", "typescript", "javascript", "python">>
C35_Template ==
    IF \E k \in 1..4 : C35_Has(C35_Priority[k])
    THEN C35_Names[Min({k \in 1..4 : C35_Has(C35_Priority[k])})]
    ELSE "generic"
C35_Lines == {properties.content[k] : k \in DOMAIN properties.content}
C35_PropertiesFile ==
    properties.pc = "done" =>
        /\ (properties.before # <<>> /\ ~properties.overwrite) =>
              /\ properties.content = properties.before
              /\ properties.success /\ ~properties.raised
              /\ ~properties.written
        /\ properties.written =>
              /\ properties.language_template = C35_Template
              /\ (JavaBinariesLine \in C35_Lines
                    <=> properties.language_template = "java")
\* a file written over an existing one from .ts and .js together, and a file
\* kept
C35_Witness ==
    /\ properties.pc = "done" /\ properties.written
    /\ properties.before # <<>>
    /\ {".ts", ".js"} \subseteq properties.detected_extensions
    /\ properties.language_template = "typescript"
C35_WitnessKept ==
    /\ properties.pc = "done" /\ ~properties.written /\ properties.success
    /\ properties.content = ExistingContent
    /\ ".java" \in properties.detected_extensions
C35_WitnessJava ==
    /\ properties.pc = "done" /\ properties.written
    /\ properties.detected_extensions = {".JAVA", ".py"}
    /\ JavaBinariesLine \in C35_Lines


\* execute has returned twice without raising, the instance skips unchanged
\* repositories and does not force the scan, both calls saw the same HEAD
\* revision and the same state key, and the first call ran its scan
C36_First == history[Len(history) - 1]
C36_Second == history[Len(history)]
C36_Rerun ==
    /\ caller = "rerun"
    /\ pc = "idle"
    /\ Len(history) >= 2
    /\ ~C36_First.raised /\ ~C36_Second.raised
    /\ sonar.skip_unchanged /\ ~sonar.force_scan
    /\ C36_First.result.revision /= None
    /\ C36_First.result.revision = C36_Second.result.revision
    /\ C36_First.key = C36_Second.key
    /\ C36_First.result.reason /= "unchanged"

C36_FirstSucceeded ==
    C36_First.result.success /\ C36_First.result.final_status = "SUCCESS"
C36_SecondSkipped ==
    /\ C36_Second.result.success
    /\ C36_Second.result.reason = "unchanged"
    /\ call.in = NoInput
    /\ \A p \in DOMAIN trace : trace[p].kind \notin ExternalWork
C36_SecondSubmits ==
    /\ C36_Second.result.reason /= "unchanged"
    /\ call.in /= NoInput
    /\ \E p \in DOMAIN trace : trace[p].kind \in ExternalWork
\* the state file the second call found holds the first call's outcome
C36_Persisted ==
    /\ call.file.kind = "scans"
    /\ Lookup(call.file.scans, C36_First.key)
         = [revision |-> C36_First.result.revision,
            status |-> C36_First.result.final_status]
C36_Rule ==
    /\ C36_SecondSkipped <=> C36_FirstSucceeded
    /\ ~C36_SecondSkipped => C36_SecondSubmits
    /\ (/\ C36_First.result.success
        /\ C36_First.result.final_status \in {"SUBMITTED", "SKIPPED_STATUS_CHECK"}) =>
          C36_Persisted /\ C36_SecondSubmits

\* C36 as stated: with skip_unchanged, without force_scan, and with an
\* unchanged HEAD revision and state key, the second execute is skipped as
\* unchanged if and only if the first execute succeeded with final_status
\* SUCCESS; after a first execute that ended SUBMITTED or
\* SKIPPED_STATUS_CHECK the entry is persisted but the second execute
\* submits again.
C36_Original == C36_Rerun => C36_Rule

\* C36 amended: the same, provided the first execute's write of the state
\* file did not fail; a failed write is swallowed, nothing is persisted and
\* the second execute submits again whatever the first one's status was.
C36_SkipOnRerun ==
    (C36_Rerun /\ (C36_First.result.success => C36_First.written)) => C36_Rule

C36_Witness ==
    /\ C36_Rerun
    /\ C36_FirstSucceeded /\ C36_First.written
    /\ C36_SecondSkipped
    /\ sonar.execution_mode = "local"
C36_WitnessSubmitted ==
    /\ C36_Rerun
    /\ C36_First.result.success /\ C36_First.written
    /\ C36_First.result.final_status = "SUBMITTED"
    /\ C36_Persisted
    /\ C36_SecondSubmits
C36_WitnessStatusCheckSkipped ==
    /\ C36_Rerun
    /\ C36_First.result.success /\ C36_First.written
    /\ C36_First.result.final_status = "SKIPPED_STATUS_CHECK"
    /\ C36_Persisted
    /\ C36_SecondSubmits


\* C37: for every workspace id and slug, the sonar.projectKey that
\* GenerateSonarPropertiesAction writes equals the project_key that
\* RunSonarScannerAction computes once per execute and uses for the state
\* key, the quality-gate query and the CI variable SONAR_PROJECT_KEY.
C37_KeysAgree ==
    {"scan", "properties"} \subseteq keys.done =>
        /\ Len(keys.sanitized) = Len(keys.project_key)
        /\ \A k \in DOMAIN keys.project_key : keys.sanitized[k] = keys.project_key[k]
\* both keys computed from identifiers holding a replaced sign and a letter
\* outside ASCII
C37_Witness ==
    /\ keys.done = {"scan", "properties"}
    /\ keys.workspace_id = <<"U+00E9", "/">>
    /\ keys.slug = <<" ", "a">>
    /\ keys.project_key = <<"U+00E9", "_", "_", "_", "a">>
    /\ keys.sanitized = keys.project_key


\* the pull commands of the fallback chain that were run
C38_FallbackPulls ==
    {p \in DOMAIN git.commands : \E b \in Branches : git.commands[p] = PullFromCmd(b)}
\* the fallback chain was entered: the upstream query of line 75 was followed
\* by the query of origin's default branch of line 78
C38_FallbackReached ==
    \E p \in 1..(Len(git.commands) - 1) :
        /\ git.commands[p] = UpstreamCmd
        /\ git.commands[p + 1] = DefaultBranchCmd
\* the candidates of _resolve_primary_branch, as the repository gives them
C38_Candidates ==
    {"master", "main"}
    \cup (IF git.origin_head /= None THEN {git.origin_head} ELSE {})
    \cup (IF git.current_branch \notin {None, Detached} THEN {git.current_branch} ELSE {})

\* C38: in pull, whenever a primary branch is resolved, no
\* `pull --ff-only origin <branch>` is run: when the pull command is due the
\* branch checked out has an upstream, already set or set to origin/<primary>,
\* and the pull that was run is the plain `pull --ff-only`; the fallback
\* chain is entered only when no candidate branch exists on origin.
C38_NoFallbackWithPrimary ==
    (caller = "git" /\ git.op = "pull") =>
       /\ git.primary_branch /= None =>
             /\ C38_FallbackPulls = {}
             /\ ~C38_FallbackReached
             /\ git.pc = "pull" =>
                   /\ git.head = git.primary_branch
                   /\ HasUpstream(git)
             /\ (git.pc = "done" /\ ~git.error) =>
                   /\ git.commands[Len(git.commands)] = PullCmd
                   /\ git.head = git.primary_branch
                   /\ HasUpstream(git)
       /\ (C38_FallbackReached \/ C38_FallbackPulls /= {}) =>
             /\ git.primary_branch = None
             /\ C38_Candidates \cap git.remote = {}
\* a pull that resolved master, checked out the local branch that had no
\* upstream, set the upstream and pulled plainly
C38_Witness ==
    /\ caller = "git" /\ git.op = "pull"
    /\ git.pc = "done" /\ ~git.error
    /\ git.primary_branch = "master"
    /\ \E p \in DOMAIN git.commands : git.commands[p] = SetUpstreamCmd("master")
    /\ \E p \in DOMAIN git.commands : git.commands[p] = CheckoutCmd("master")
    /\ git.commands[Len(git.commands)] = PullCmd
\* a pull that went through the fallback chain
C38_WitnessFallback ==
    /\ caller = "git" /\ git.op = "pull"
    /\ git.pc = "done" /\ ~git.error
    /\ git.primary_branch = None
    /\ C38_FallbackReached
    /\ C38_FallbackPulls /= {}


\* execute went through the dispatch in ci mode with the step verification
\* on, the provider being bitbucket and its credentials present
C39_CiVerifying ==
    /\ Dispatched
    /\ sonar.execution_mode = "ci"
    /\ sonar.ci_verify
    /\ sonar.ci_provider = "bitbucket"
    /\ sonar.ci_auth
\* the n-th trigger, if made, is answered
C39_TriggerOk(n) ==
    /\ sonar.ci_ref_name /= None \/ call.in.mb[n] /= "raise"
    /\ call.in.trig[n] /= "raise"
\* the inspection after the n-th trigger is inconclusive: the trigger's
\* response has no pipeline uuid, the steps request fails, or its payload is
\* malformed
C39_Inconclusive(n) ==
    \/ call.in.trig[n] = "nouuid"
    \/ call.in.steps[n] \in {"none", "http_error", "bad_json", "nonobject",
                             "values_not_list"}
C39_Triggers == CountFor("ci_trigger_request", CurrentRepo)
C39_Inspections == CountFor("ci_steps_request", CurrentRepo)
C39_Submitted ==
    /\ ReturnsOutcome
    /\ call.success
    /\ call.final_status = "SUBMITTED"
    /\ call.ci_sonar_step_detected = "none"
\* the dispatch raised
C39_Failed ==
    /\ call.stage = "done"
    /\ history /= <<>>
    /\ history[1].raised
    /\ ~call.success

\* C39: in ci mode with step verification, an inconclusive step inspection
\* (no pipeline uuid in the trigger response, a failed steps request, a
\* malformed steps payload) neither triggers again with the fallback selector
\* nor fails: execute ends with success, final_status SUBMITTED and
\* ci_sonar_step_detected unset; with the triggers answered, execute fails
\* only when the steps of the last pipeline were listed and none references
\* sonar.
C39_InconclusiveSubmits ==
    C39_CiVerifying =>
       /\ (C39_TriggerOk(1) /\ C39_Inconclusive(1)) =>
             /\ C39_Triggers = 1
             /\ C39_Inspections = IF call.in.trig[1] = "nouuid" THEN 0 ELSE 1
             /\ C39_Submitted
       /\ (C39_Triggers = 2 /\ C39_TriggerOk(2) /\ C39_Inconclusive(2)) =>
             C39_Submitted
       /\ (C39_TriggerOk(1) /\ C39_TriggerOk(2) /\ C39_Failed) =>
             /\ C39_Inspections = C39_Triggers
             /\ call.in.trig[C39_Triggers] = "uuid"
             /\ call.in.steps[C39_Inspections] = "false"
\* a steps payload that is not JSON, with a fallback selector at hand
C39_Witness ==
    /\ C39_CiVerifying
    /\ call.stage = "done"
    /\ sonar.env_SONAR_CI_SONAR_SELECTOR = "sonar-nightly"
    /\ sonar.ci_selector = "build"
    /\ call.in.trig[1] = "uuid"
    /\ call.in.steps[1] = "bad_json"
    /\ C39_Triggers = 1 /\ C39_Inspections = 1
    /\ history /= <<>> /\ ~history[1].raised
    /\ history[1].result.success
    /\ history[1].result.final_status = "SUBMITTED"
C39_WitnessNoUuid ==
    /\ C39_CiVerifying
    /\ call.stage = "done"
    /\ call.in.trig[1] = "nouuid"
    /\ C39_Triggers = 1 /\ C39_Inspections = 0
    /\ history /= <<>> /\ ~history[1].raised
    /\ history[1].result.final_status = "SUBMITTED"
C39_WitnessSecond ==
    /\ C39_CiVerifying
    /\ call.stage = "done"
    /\ C39_Triggers = 2
    /\ call.in.steps = <<"false", "http_error">>
    /\ history /= <<>> /\ ~history[1].raised
    /\ history[1].result.final_status = "SUBMITTED"
C39_WitnessFailed ==
    /\ C39_CiVerifying
    /\ C39_Failed
    /\ C39_TriggerOk(1) /\ C39_TriggerOk(2)
    /\ C39_Triggers = 1
    /\ call.in.steps[1] = "false"


\* the positions of the summary's entries whose repository failed
C40_Failed ==
    {k \in DOMAIN summary.repositories : ~summary.repositories[k].success}

\* C40: the repository entries of the returned summary are a prefix of the
\* selected list, entry by entry in the list's order, so that no repository
\* comes twice: the whole list when dry_run is set or stop_on_error is not,
\* and with stop_on_error the prefix that ends at the first failed
\* repository (the whole list when none failed).
C40_SummaryIsPrefix ==
    summary.returned =>
       LET n == Len(summary.repositories)
       IN /\ n <= Len(repositories)
          /\ \A k \in 1..n : summary.repositories[k].repo_slug = repositories[k]
          /\ \A a, b \in 1..n :
                summary.repositories[a].repo_slug = summary.repositories[b].repo_slug
                    => a = b
          /\ (args.dry_run \/ ~args.stop_on_error) => n = Len(repositories)
          /\ (~args.dry_run /\ args.stop_on_error) =>
                IF C40_Failed = {} THEN n = Len(repositories)
                ELSE C40_Failed = {n}
\* a run stopped at the first of two selected repositories
C40_Witness ==
    /\ summary.returned
    /\ ~args.dry_run /\ args.stop_on_error
    /\ repositories = <<1, 2>>
    /\ Len(summary.repositories) = 1
    /\ summary.repositories[1].repo_slug = 1
    /\ ~summary.repositories[1].success
\* a run that went on after a failure
C40_WitnessWhole ==
    /\ summary.returned
    /\ ~args.dry_run /\ ~args.stop_on_error
    /\ repositories = <<1, 2>>
    /\ Len(summary.repositories) = 2
    /\ ~summary.repositories[1].success
    /\ summary.repositories[2].repo_slug = 2
C40_WitnessDryRun ==
    /\ summary.returned
    /\ args.dry_run /\ args.stop_on_error
    /\ Len(repositories) = 2
    /\ Len(summary.repositories) = 2
============================================================================
